---------------------------- MODULE Spec2Model ----------------------------
(***************************************************************************)
(* exitmap: the scanning harness.  One run of run_module over a finite     *)
(* exit list: the main thread requests circuits (iter_exit_relays), the    *)
(* controller event thread handles CIRC and STREAM events                  *)
(* (EventHandler.new_event), the queue-reader thread handles the messages  *)
(* of the probe workers (EventHandler.queue_reader), and the probe workers *)
(* (module_call) open SOCKS sockets and send their completion token.       *)
(***************************************************************************)
EXTENDS Integers, Sequences, FiniteSets, TLC

\* ---- bounds of the model ----
MaxCircuits == 2      \* count * redundancy is at most this
MaxWork     == 3      \* circuit requests plus SOCKS sockets opened in one run
NumPorts    == 2      \* local source ports the kernel hands out
MaxRelays   == 3      \* relays of the consensus (hop selection)
MaxRejected == 2      \* rejected draws counted per circuit (hop selection)

Circuits == 1..MaxCircuits
Ports    == 1..NumPorts
Threads  == {"Q", "E"}          \* queue reader, controller event thread

None == 0                        \* Python's None for ids and socknames

\* ---- state ----
VARIABLES
  count, redundancy,             \* len(exit_relays), args.redundancy
  m_pc, m_idx, m_tmp,            \* main thread: position, requests done, loaded counter
  total_circuits, failed_circuits, successful_circuits, finished_streams,
  failed_circuit_relays, pending_circuits,
  tor_circ, stream_events, next_sid,   \* the Tor client: circuits, emitted STREAM events
  close_calls,                   \* history: ids the queue reader asked the client to close
  queue,                         \* the IPC queue of (circ_id, sockname)
  unattached, attacher_lock,     \* Attacher
  check_finished_lock, already_finished, pid_to_fingerprint,
  pc, cur, popped, e_tmp,        \* threads Q and E: position, message/event, locals
  proc, proc_dests, sock, socks_opened,  \* probe workers and their SOCKS socket
  ports_seen,                    \* history: number of distinct ports handed out
  attach_calls, stream_owner,    \* history: attach_stream calls, stream -> worker circuit
  attach_rejected,               \* history: the attach_stream calls the client rejected
  prep_log,                      \* history: per port, the prepare calls in lock order
  registered, early,             \* history: registered ids, ids seen before registration
  circ_seen,                     \* history: ids that appeared in a processed CIRC event
  teardowns, terminated, built_handled, fired_by,
  \* one DNS-health probe (modules/dnshealth.py, in a probe worker)
  pr_entry,                      \* the function called: do_validation or resolve_with_retry
  expected_ip, retries,          \* arguments of resolve_with_retry
  pr_pc, attempt, result,        \* position, loop variable, the result dict
  alarm,                         \* the SIGALRM of _AlarmContext: off, armed, spent
  outcomes, last_outcome,        \* history: how each attempt ended
  status_counts, written,        \* _status_counts (the worker's copy), the result files written
  analysis_dir,                  \* util.analysis_dir is set (option -a)
  write_errors,                  \* history: "Failed to write result" errors logged
  orch_status_counts,            \* _status_counts, the copy of the orchestrator process
  teardown_total,                \* the total dnshealth.teardown has logged: <<total>>, << >> before
  \* the grace wait of check_finished
  grace_timeout, active,         \* EXITMAP_GRACE_TIMEOUT, len(active_children())
  g_pc, per_proc, joined, waited, \* position, the split, joins done, sum of budgets
  \* main of exitmap.py over the modules of the command line
  args_module, args_redundancy,  \* len(args.module), args.redundancy
  first_hop_in_consensus,        \* util.relay_in_consensus(args.first_hop, ...)
  importable,                    \* the modules whose import succeeds
  selection,                     \* per module, len(exit_relays) that select_exits yields
  main_pc, mod_idx,              \* position of main, index of the module being run
  run_total,                     \* stats.total_circuits, shared by all modules
  requests,                      \* history: per module, new_circuit requests issued
  raised, errors_logged,         \* history: modules that raised ExitSelectionError
  exit_status,                   \* the value main returns
  \* calls of stats.get_circuit_failure_info
  info_calls,                    \* history: the reason given and the key returned
  \* calls of dnshealth.generate_unique_query
  issued,                        \* the UUIDs uuid.uuid4() has returned
  queries,                       \* history: the arguments and the query returned
  \* the hop selection of exitmap.iter_exit_relays
  args_first_hop,                \* args.first_hop: a pinned first hop, or None
  fingerprints,                  \* the candidate first hops (random mode)
  exit_relays,                   \* the shuffled exit list
  hop_redundancy,                \* args.redundancy
  hop_pc,                        \* position in iter_exit_relays
  hop_i, hop_r,                  \* exit index and redundancy iteration
  hop_first,                     \* the first hop chosen for the current circuit
  rejected,                      \* history: draws rejected for the current circuit
  new_circuit_calls              \* history: the hops passed to controller.new_circuit

stats_vars  == <<total_circuits, failed_circuits, successful_circuits,
                 finished_streams, failed_circuit_relays, pending_circuits>>
main_vars   == <<m_pc, m_idx, m_tmp>>
tor_vars    == <<tor_circ, stream_events, next_sid, close_calls>>
att_vars    == <<unattached, attacher_lock, attach_calls, attach_rejected, prep_log>>
cf_vars     == <<check_finished_lock, already_finished, teardowns, terminated, fired_by>>
thread_vars == <<pc, cur, popped, e_tmp>>
worker_vars == <<proc, proc_dests, sock, socks_opened, ports_seen, pid_to_fingerprint>>
hist_vars   == <<stream_owner, registered, early, circ_seen, built_handled>>
arg_vars    == <<count, redundancy>>
sink_vars   == <<analysis_dir, write_errors, orch_status_counts, teardown_total>>
probe_vars  == <<pr_entry, expected_ip, retries, pr_pc, attempt, result, alarm,
                 outcomes, last_outcome, status_counts, written, analysis_dir,
                 write_errors, orch_status_counts, teardown_total>>
grace_vars  == <<grace_timeout, active, g_pc, per_proc, joined, waited>>
orch_vars   == <<args_module, args_redundancy, first_hop_in_consensus, importable,
                 selection, main_pc, mod_idx, run_total, requests, raised,
                 errors_logged, exit_status>>
info_vars   == <<info_calls>>
query_vars  == <<issued, queries>>
hop_vars    == <<args_first_hop, fingerprints, exit_relays, hop_redundancy, hop_pc,
                 hop_i, hop_r, hop_first, rejected, new_circuit_calls>>
ext_vars    == <<orch_vars, info_vars, query_vars, hop_vars>>
aux_vars    == <<probe_vars, grace_vars, ext_vars>>
scan_vars   == <<arg_vars, main_vars, stats_vars, tor_vars, queue, att_vars, cf_vars,
                 thread_vars, worker_vars, hist_vars>>
\* everything but the state of main, but the calls of get_circuit_failure_info,
\* but the calls of generate_unique_query
not_orch    == <<probe_vars, grace_vars, scan_vars, info_vars, query_vars, hop_vars>>
not_info    == <<probe_vars, grace_vars, scan_vars, orch_vars, query_vars, hop_vars>>
not_query   == <<probe_vars, grace_vars, scan_vars, orch_vars, info_vars, hop_vars>>
not_hop     == <<probe_vars, grace_vars, scan_vars, orch_vars, info_vars, query_vars>>

vars == <<aux_vars, arg_vars, main_vars, stats_vars, tor_vars, queue, att_vars, cf_vars,
          thread_vars, worker_vars, hist_vars>>

\* ---- the exit list ----
FirstHop == "guard"

\* exit relay of the k-th request of iter_exit_relays (outer loop over exits,
\* inner loop over range(redundancy)); exits are named by their list index
ExitOf(k) == ((k - 1) \div redundancy) + 1

\* exit_destinations[exit_fpr]: the destination set the selector kept for an exit
exit_destinations(e) == {<<"dest", e>>}

NoEvent == [kind |-> "none", id |-> None, status |-> "", port |-> None, reason |-> ""]
NoPartial == [stream_id |-> None, circuit_id |-> None]
NoSock == [port |-> None, st |-> "closed"]

\* the state after run_module has set up the scan of one module
ScanInit ==
  /\ count \in 1..MaxCircuits
  /\ redundancy \in 1..MaxCircuits
  /\ count * redundancy <= MaxCircuits
  /\ m_pc = "new_circuit" /\ m_idx = 0 /\ m_tmp = 0
  /\ total_circuits = count * redundancy
  /\ failed_circuits = 0 /\ successful_circuits = 0 /\ finished_streams = 0
  /\ failed_circuit_relays = << >>
  /\ pending_circuits = << >>
  /\ tor_circ = [c \in Circuits |-> "none"]
  /\ stream_events = << >> /\ next_sid = 1 /\ close_calls = {}
  /\ queue = << >>
  /\ unattached = [p \in Ports |-> NoPartial]
  /\ attacher_lock = "free"
  /\ check_finished_lock = "free" /\ already_finished = FALSE
  /\ pid_to_fingerprint = << >>
  /\ pc = [t \in Threads |-> "idle"]
  /\ cur = [t \in Threads |-> NoEvent]
  /\ popped = [t \in Threads |-> NoPartial]
  /\ e_tmp = 0
  /\ proc = [c \in Circuits |-> "none"]
  /\ proc_dests = [c \in Circuits |-> {}]
  /\ sock = [c \in Circuits |-> NoSock]
  /\ socks_opened = 0 /\ ports_seen = 0
  /\ attach_calls = << >> /\ stream_owner = << >>
  /\ attach_rejected = {}
  /\ prep_log = [p \in Ports |-> << >>]
  /\ registered = {} /\ early = {} /\ circ_seen = {}
  /\ teardowns = 0 /\ terminated = {} /\ built_handled = {} /\ fired_by = "none"


\* ---- iter_exit_relays (main thread) ----

\* stats.register_circuit: the registry entry of a circuit id
RegistryEntry(first_hop, exit_relay) ==
  [first_hop |-> first_hop, exit_relay |-> exit_relay]

\* the request in progress is number m_idx + 1; the client numbers its circuits
CurrentRequest == m_idx + 1

NextRequestPc == IF m_idx + 1 = total_circuits THEN "done" ELSE "new_circuit"

\* controller.new_circuit(hops) returns a circuit id
NewCircuitOk ==
  /\ m_pc = "new_circuit"
  /\ tor_circ' = [tor_circ EXCEPT ![CurrentRequest] = "requested"]
  /\ m_pc' = "register"
  /\ UNCHANGED <<aux_vars, arg_vars, m_idx, m_tmp, stats_vars, stream_events, next_sid, close_calls, queue,
                 att_vars, cf_vars, thread_vars, worker_vars, hist_vars>>

\* controller.new_circuit(hops) raises stem.ControllerError and
\* stats.record_immediate_failure begins: "self.failed_circuits += 1" loads the
\* counter ...
NewCircuitError ==
  /\ m_pc = "new_circuit"
  /\ m_tmp' = failed_circuits
  /\ m_pc' = "record_store"
  /\ UNCHANGED <<aux_vars, arg_vars, m_idx, stats_vars, tor_vars, queue,
                 att_vars, cf_vars, thread_vars, worker_vars, hist_vars>>

\* stats.register_circuit(circuit_id, hops[0], hops[1])
RegisterCircuit ==
  /\ m_pc = "register"
  /\ pending_circuits' =
       (CurrentRequest :> RegistryEntry(FirstHop, ExitOf(CurrentRequest))) @@ pending_circuits
  /\ registered' = registered \cup {CurrentRequest}
  /\ m_idx' = m_idx + 1
  /\ m_pc' = NextRequestPc
  /\ UNCHANGED <<aux_vars, arg_vars, m_tmp, total_circuits, failed_circuits, successful_circuits,
                 finished_streams, failed_circuit_relays, tor_vars, queue, att_vars,
                 cf_vars, thread_vars, worker_vars, stream_owner, early, circ_seen,
                 built_handled>>

ImmediateFailureRecord(first_hop) ==
  [reason_key |-> "circuit_creation_failed", tor_reason |-> "CREATION_FAILED",
   first_hop |-> first_hop, unresolved |-> FALSE]

\* ... and stores it, then writes the failure record under the exit fingerprint
RecordImmediateFailureStore ==
  /\ m_pc = "record_store"
  /\ failed_circuits' = m_tmp + 1
  /\ failed_circuit_relays' =
       (<<"exit", ExitOf(CurrentRequest)>> :> ImmediateFailureRecord(FirstHop))
         @@ failed_circuit_relays
  /\ m_idx' = m_idx + 1
  /\ m_tmp' = 0
  /\ m_pc' = NextRequestPc
  /\ UNCHANGED <<aux_vars, arg_vars, total_circuits, successful_circuits, finished_streams,
                 pending_circuits, tor_vars, queue, att_vars, cf_vars, thread_vars,
                 worker_vars, hist_vars>>


\* ---- Statistics.update_circs ----

\* reasons the client gives for a failed circuit in this model
Reasons == {"TIMEOUT"}

\* circ_event.reason is None: the event carries no reason
NoReason == "<None>"

\* "if reason" is false: the reason is None or the empty string
ReasonMissing(reason) == reason \in {NoReason, ""}

\* reason words of the model, in upper case: the keys of CIRCUIT_FAILURE_MAP and
\* three words that are not among them
OtherWords == {"FOO", "UNKNOWN", "NONE"}

\* the spelling of a word in lower case
LowerCase ==
     ("TIMEOUT" :> "timeout")
  @@ ("CONNECTFAILED" :> "connectfailed")
  @@ ("NOPATH" :> "nopath")
  @@ ("RESOURCELIMIT" :> "resourcelimit")
  @@ ("HIBERNATING" :> "hibernating")
  @@ ("DESTROYED" :> "destroyed")
  @@ ("FINISHED" :> "finished")
  @@ ("OR_CONN_CLOSED" :> "or_conn_closed")
  @@ ("CHANNEL_CLOSED" :> "channel_closed")
  @@ ("IOERROR" :> "ioerror")
  @@ ("TORPROTOCOL" :> "torprotocol")
  @@ ("INTERNAL" :> "internal")
  @@ ("REQUESTED" :> "requested")
  @@ ("NOSUCHSERVICE" :> "nosuchservice")
  @@ ("MEASUREMENT_EXPIRED" :> "measurement_expired")
  @@ ("GUARD_LIMIT_REACHED" :> "guard_limit_reached")
  @@ ("FOO" :> "foo")
  @@ ("UNKNOWN" :> "unknown")
  @@ ("NONE" :> "none")

\* the spelling of a word with a capital first letter
Capitalised ==
     ("TIMEOUT" :> "Timeout")
  @@ ("CONNECTFAILED" :> "Connectfailed")
  @@ ("NOPATH" :> "Nopath")
  @@ ("RESOURCELIMIT" :> "Resourcelimit")
  @@ ("HIBERNATING" :> "Hibernating")
  @@ ("DESTROYED" :> "Destroyed")
  @@ ("FINISHED" :> "Finished")
  @@ ("OR_CONN_CLOSED" :> "Or_conn_closed")
  @@ ("CHANNEL_CLOSED" :> "Channel_closed")
  @@ ("IOERROR" :> "Ioerror")
  @@ ("TORPROTOCOL" :> "Torprotocol")
  @@ ("INTERNAL" :> "Internal")
  @@ ("REQUESTED" :> "Requested")
  @@ ("NOSUCHSERVICE" :> "Nosuchservice")
  @@ ("MEASUREMENT_EXPIRED" :> "Measurement_expired")
  @@ ("GUARD_LIMIT_REACHED" :> "Guard_limit_reached")
  @@ ("FOO" :> "Foo")
  @@ ("UNKNOWN" :> "Unknown")
  @@ ("NONE" :> "None")

Spellings == {"upper", "lower", "capitalised"}

\* the string a word is spelled as
Spell(word, spelling) ==
  CASE spelling = "upper" -> word
    [] spelling = "lower" -> LowerCase[word]
    [] spelling = "capitalised" -> Capitalised[word]

\* str.upper() on the strings of the model
upper(text) ==
  IF \E w \in DOMAIN LowerCase : text \in {LowerCase[w], Capitalised[w]}
    THEN CHOOSE w \in DOMAIN LowerCase : text \in {LowerCase[w], Capitalised[w]}
    ELSE text

\* CIRCUIT_FAILURE_MAP: the friendly key of each known reason
CIRCUIT_FAILURE_MAP ==
     ("TIMEOUT" :> "circuit_timeout")
  @@ ("CONNECTFAILED" :> "relay_connect_failed")
  @@ ("NOPATH" :> "circuit_no_path")
  @@ ("RESOURCELIMIT" :> "relay_resource_limit")
  @@ ("HIBERNATING" :> "relay_hibernating")
  @@ ("DESTROYED" :> "circuit_destroyed")
  @@ ("FINISHED" :> "circuit_finished")
  @@ ("OR_CONN_CLOSED" :> "relay_connection_closed")
  @@ ("CHANNEL_CLOSED" :> "channel_closed")
  @@ ("IOERROR" :> "io_error")
  @@ ("TORPROTOCOL" :> "tor_protocol_error")
  @@ ("INTERNAL" :> "tor_internal_error")
  @@ ("REQUESTED" :> "circuit_requested")
  @@ ("NOSUCHSERVICE" :> "no_such_service")
  @@ ("MEASUREMENT_EXPIRED" :> "measurement_expired")
  @@ ("GUARD_LIMIT_REACHED" :> "guard_limit")

\* a lookup that compares the reason as it was given
get_circuit_failure_info_case_sensitive(reason) ==
  LET reason_str == IF ReasonMissing(reason) THEN "UNKNOWN" ELSE reason
  IN  IF reason_str \in DOMAIN CIRCUIT_FAILURE_MAP
        THEN CIRCUIT_FAILURE_MAP[reason_str]
        ELSE "circuit_failed"

\* stats.get_circuit_failure_info: the friendly key of a raw reason
get_circuit_failure_info(reason) ==
  LET reason_str == IF ReasonMissing(reason) THEN "UNKNOWN" ELSE upper(reason)
  IN  IF reason_str \in DOMAIN CIRCUIT_FAILURE_MAP
        THEN CIRCUIT_FAILURE_MAP[reason_str]
        ELSE "circuit_failed"

\* stats.resolve_circuit: (first_hop, exit_relay), or (None, None) when unknown
resolve_circuit(cid) ==
  IF cid \in DOMAIN pending_circuits
    THEN <<pending_circuits[cid].first_hop, pending_circuits[cid].exit_relay>>
    ELSE <<None, None>>

\* stats.complete_circuit: pop the id from the registry
complete_circuit(cid) ==
  [c \in (DOMAIN pending_circuits) \ {cid} |-> pending_circuits[c]]

\* the key update_circs files a failure under
FailureKey(cid) ==
  IF resolve_circuit(cid)[2] # None
    THEN <<"exit", resolve_circuit(cid)[2]>>
    ELSE <<"UNRESOLVED", cid>>

FailureRecord(cid, reason) ==
  [reason_key |-> get_circuit_failure_info(reason),
   tor_reason |-> IF ReasonMissing(reason) THEN "UNKNOWN" ELSE reason,
   first_hop |-> resolve_circuit(cid)[1],
   unresolved |-> (resolve_circuit(cid)[2] = None)]

\* history: the id of a CIRC event reached update_circs; was it registered by then?
SeenCirc(cid) ==
  /\ circ_seen' = circ_seen \cup {cid}
  /\ early' = IF cid \in registered THEN early ELSE early \cup {cid}

\* ---- EventHandler.check_finished ----

\* a check_finished that does not wait for the lock
CheckFinishedLockIgnored == TRUE

\* "with self.check_finished_lock": the lock can be taken
CheckFinishedLockFree == check_finished_lock = "free"

\* Did all circuits either build or fail?
circs_done == (failed_circuits + successful_circuits) = total_circuits

\* streams_done without the subtraction of the failed circuits
streams_done_all_built == finished_streams >= successful_circuits

\* "Was every built circuit attached to a stream?"
streams_done == finished_streams >= (successful_circuits - failed_circuits)

\* the thread is handling a CIRC BUILT event (new_circuit goes on to spawn a probe)
HandlingBuilt(t) == t = "E" /\ cur[t].kind = "CIRC" /\ cur[t].status = "BUILT"

\* sys.exit(0) inside a handler ends the calling thread
ExitThread(t) ==
  /\ pc' = [pc EXCEPT ![t] = "exited"]
  /\ built_handled' = IF HandlingBuilt(t) THEN built_handled \cup {cur[t].id}
                      ELSE built_handled

\* check_finished returns to its caller: new_circuit goes on to the probe for BUILT,
\* every other caller is done with its event or message
ReturnFromCheck(t) ==
  IF HandlingBuilt(t)
    THEN pc' = [pc EXCEPT ![t] = "spawn"] /\ cur' = cur
    ELSE pc' = [pc EXCEPT ![t] = "idle"] /\ cur' = [cur EXCEPT ![t] = NoEvent]

\* take the lock; "if self.already_finished: sys.exit(0)"
EnterCheck(t) ==
  /\ CheckFinishedLockFree
  /\ IF already_finished
       THEN /\ ExitThread(t)
            /\ UNCHANGED check_finished_lock
       ELSE /\ check_finished_lock' = t
            /\ pc' = [pc EXCEPT ![t] = "cf_eval"]
            /\ UNCHANGED built_handled

CheckFinishedEnter(t) ==
  /\ pc[t] = "cf_enter"
  /\ EnterCheck(t)
  /\ UNCHANGED <<aux_vars, arg_vars, main_vars, stats_vars, tor_vars, queue, att_vars,
                 already_finished, teardowns, terminated, fired_by, cur, popped, e_tmp,
                 worker_vars, stream_owner, registered, early, circ_seen>>

\* evaluate the termination condition; on success set already_finished and start
\* the grace wait, otherwise release the lock and return
CheckFinishedEval(t) ==
  /\ pc[t] = "cf_eval"
  /\ IF circs_done /\ streams_done
       THEN /\ already_finished' = TRUE
            /\ fired_by' = IF fired_by = "none" THEN t ELSE fired_by
            /\ pc' = [pc EXCEPT ![t] = "cf_grace"]
            /\ UNCHANGED <<check_finished_lock, cur>>
       ELSE /\ check_finished_lock' = "free"
            /\ ReturnFromCheck(t)
            /\ UNCHANGED <<already_finished, fired_by>>
  /\ UNCHANGED <<aux_vars, arg_vars, main_vars, stats_vars, tor_vars, queue, att_vars,
                 teardowns, terminated, popped, e_tmp, worker_vars, hist_vars>>

\* multiprocessing.active_children() after the grace wait: the workers still alive
Stragglers == {c \in Circuits : proc[c] = "running"}

\* a report that does not ask whether the process is still alive
TerminatedFingerprintsOfAll ==
  {pid_to_fingerprint[c] : c \in DOMAIN pid_to_fingerprint}

\* "if fpr := self.pid_to_fingerprint.get(proc.pid): terminated.append(fpr)" for
\* the processes that are alive after their join
TerminatedFingerprints ==
  {pid_to_fingerprint[c] : c \in Stragglers \cap DOMAIN pid_to_fingerprint}

\* proc.join(timeout=per_proc) with per_proc >= 1: a worker that stays alive is
\* waited on for at least a second, so a new_circuit that had started the worker
\* has run its next statement (the pid_to_fingerprint store) by the end of the wait
GraceWaitOver == pc["E"] # "record_pid"

\* end of the grace wait: terminate the stragglers, module.teardown, sys.exit(0)
CheckFinishedTeardown(t) ==
  /\ pc[t] = "cf_grace"
  /\ GraceWaitOver
  /\ terminated' = terminated \cup TerminatedFingerprints
  /\ proc' = [c \in Circuits |-> IF c \in Stragglers THEN "terminated" ELSE proc[c]]
  /\ sock' = [c \in Circuits |-> IF c \in Stragglers THEN NoSock ELSE sock[c]]
  /\ teardowns' = teardowns + 1
  /\ check_finished_lock' = "free"
  /\ ExitThread(t)
  /\ UNCHANGED <<aux_vars, arg_vars, main_vars, stats_vars, tor_vars, queue, att_vars,
                 already_finished, fired_by, cur, popped, e_tmp, proc_dests,
                 socks_opened, ports_seen, pid_to_fingerprint, stream_owner, registered, early,
                 circ_seen>>

\* ---- the controller event thread: EventHandler.new_event / new_circuit ----

CircEvent(cid, status, reason) ==
  [kind |-> "CIRC", id |-> cid, status |-> status, port |-> None, reason |-> reason]

\* an update_circs that counts every CIRC event without a failure as a success
TransientCircEventCounted(cid) ==
  /\ pc["E"] = "idle"
  /\ EnterCheck("E")
  /\ successful_circuits' = successful_circuits + 1
  /\ early' = IF cid \in registered THEN early ELSE early \cup {cid}
  /\ circ_seen' = circ_seen \cup {cid}
  /\ UNCHANGED <<aux_vars, arg_vars, main_vars, total_circuits, failed_circuits,
                 finished_streams, failed_circuit_relays, pending_circuits,
                 stream_events, next_sid, close_calls, queue,
                 att_vars, already_finished, teardowns, terminated, fired_by, cur,
                 popped, e_tmp, worker_vars, stream_owner, registered>>

\* a CIRC event with a status other than BUILT or FAILED: update_circs changes
\* nothing, new_circuit calls check_finished and returns
TransientCircEvent(cid) ==
  /\ pc["E"] = "idle"
  /\ EnterCheck("E")
  /\ early' = IF cid \in registered THEN early ELSE early \cup {cid}
  /\ circ_seen' = circ_seen \cup {cid}
  /\ UNCHANGED <<aux_vars, arg_vars, main_vars, stats_vars, stream_events, next_sid, close_calls, queue,
                 att_vars, already_finished, teardowns, terminated, fired_by, cur,
                 popped, e_tmp, worker_vars, stream_owner, registered>>

\* CIRC LAUNCHED: the first event of a requested circuit
LaunchedCircEvent(cid) ==
  /\ tor_circ[cid] = "requested"
  /\ tor_circ' = [tor_circ EXCEPT ![cid] = "launched"]
  /\ TransientCircEvent(cid)

\* CIRC CLOSED: a built circuit was closed
ClosedCircEvent(cid) ==
  /\ tor_circ[cid] = "built"
  /\ tor_circ' = [tor_circ EXCEPT ![cid] = "closed"]
  /\ TransientCircEvent(cid)

\* a BUILT handler that forgets to count the circuit
BuiltCircEventUncounted(cid) ==
  /\ pc["E"] = "idle"
  /\ tor_circ[cid] = "launched"
  /\ tor_circ' = [tor_circ EXCEPT ![cid] = "built"]
  /\ cur' = [cur EXCEPT !["E"] = CircEvent(cid, "BUILT", "")]
  /\ pending_circuits' = complete_circuit(cid)
  /\ pc' = [pc EXCEPT !["E"] = "cf_enter"]
  /\ SeenCirc(cid)
  /\ UNCHANGED <<aux_vars, arg_vars, main_vars, total_circuits, failed_circuits, finished_streams,
                 successful_circuits, failed_circuit_relays, stream_events, next_sid, close_calls,
                 queue, att_vars, cf_vars, popped, e_tmp, worker_vars, stream_owner,
                 registered, built_handled>>

\* CIRC BUILT: successful_circuits += 1, complete_circuit(cid)
BuiltCircEvent(cid) ==
  /\ pc["E"] = "idle"
  /\ tor_circ[cid] = "launched"
  /\ tor_circ' = [tor_circ EXCEPT ![cid] = "built"]
  /\ cur' = [cur EXCEPT !["E"] = CircEvent(cid, "BUILT", "")]
  /\ successful_circuits' = successful_circuits + 1
  /\ pending_circuits' = complete_circuit(cid)
  /\ pc' = [pc EXCEPT !["E"] = "cf_enter"]
  /\ SeenCirc(cid)
  /\ UNCHANGED <<aux_vars, arg_vars, main_vars, total_circuits, failed_circuits, finished_streams,
                 failed_circuit_relays, stream_events, next_sid, close_calls, queue, att_vars,
                 cf_vars, popped, e_tmp, worker_vars, stream_owner, registered,
                 built_handled>>

\* CIRC FAILED: "self.failed_circuits += 1" loads the counter ...
FailedCircEventLoad(cid, reason) ==
  /\ pc["E"] = "idle"
  /\ tor_circ[cid] = "launched"
  /\ tor_circ' = [tor_circ EXCEPT ![cid] = "failed"]
  /\ cur' = [cur EXCEPT !["E"] = CircEvent(cid, "FAILED", reason)]
  /\ e_tmp' = failed_circuits
  /\ pc' = [pc EXCEPT !["E"] = "failed_store"]
  /\ UNCHANGED <<aux_vars, arg_vars, main_vars, stats_vars, stream_events, next_sid, close_calls, queue,
                 att_vars, cf_vars, popped, worker_vars, hist_vars>>

\* ... stores it, resolves the id, files the failure record, pops the registry entry
FailedCircEventStore ==
  /\ pc["E"] = "failed_store"
  /\ failed_circuits' = e_tmp + 1
  /\ e_tmp' = 0
  /\ failed_circuit_relays' =
       (FailureKey(cur["E"].id) :> FailureRecord(cur["E"].id, cur["E"].reason))
         @@ failed_circuit_relays
  /\ pending_circuits' = complete_circuit(cur["E"].id)
  /\ pc' = [pc EXCEPT !["E"] = "cf_enter"]
  /\ cur' = [cur EXCEPT !["E"] = NoEvent]
  /\ SeenCirc(cur["E"].id)
  /\ UNCHANGED <<aux_vars, arg_vars, main_vars, total_circuits, successful_circuits,
                 finished_streams, tor_vars, queue, att_vars, cf_vars, popped,
                 worker_vars, stream_owner, registered, built_handled>>


\* ---- EventHandler.new_circuit after check_finished: the probe worker ----

\* get_relay_desc found the exit's descriptor: multiprocessing.Process(...).start()
SpawnProbe ==
  /\ pc["E"] = "spawn"
  /\ proc' = [proc EXCEPT ![cur["E"].id] = "running"]
  /\ proc_dests' = [proc_dests EXCEPT ![cur["E"].id] =
                      exit_destinations(ExitOf(cur["E"].id))]
  /\ pc' = [pc EXCEPT !["E"] = "record_pid"]
  /\ UNCHANGED <<aux_vars, arg_vars, main_vars, stats_vars, tor_vars, queue, att_vars, cf_vars,
                 cur, popped, e_tmp, sock, socks_opened, ports_seen, pid_to_fingerprint, hist_vars>>

\* "self.pid_to_fingerprint[proc.pid] = exit_fpr"
RecordPid ==
  /\ pc["E"] = "record_pid"
  /\ pid_to_fingerprint' = (cur["E"].id :> ExitOf(cur["E"].id)) @@ pid_to_fingerprint
  /\ built_handled' = built_handled \cup {cur["E"].id}
  /\ pc' = [pc EXCEPT !["E"] = "idle"]
  /\ cur' = [cur EXCEPT !["E"] = NoEvent]
  /\ UNCHANGED <<aux_vars, arg_vars, main_vars, stats_vars, tor_vars, queue, att_vars, cf_vars,
                 popped, e_tmp, proc, proc_dests, sock, socks_opened, ports_seen, stream_owner,
                 registered, early, circ_seen>>

\* get_relay_desc returned None: close the circuit and return, no probe
SpawnNoDescriptor ==
  /\ pc["E"] = "spawn"
  /\ built_handled' = built_handled \cup {cur["E"].id}
  /\ pc' = [pc EXCEPT !["E"] = "idle"]
  /\ cur' = [cur EXCEPT !["E"] = NoEvent]
  /\ UNCHANGED <<aux_vars, arg_vars, main_vars, stats_vars, tor_vars, queue, att_vars, cf_vars,
                 popped, e_tmp, worker_vars, stream_owner, registered, early, circ_seen>>


\* ---- Attacher.prepare ----

\* a prepare that does not wait for the lock
AttacherLockIgnored == TRUE

\* "with self._lock": the lock can be taken
AttacherLockFree == attacher_lock = "free"

\* a caller that passes its id under both keywords
PrepareArgsBoth(t) == [stream_id |-> cur[t].id, circuit_id |-> cur[t].id]

\* the keyword arguments of the prepare call a thread makes: the queue reader passes
\* circuit_id=circ_id, new_stream passes stream_id=stream_event.id
PrepareArgs(t) ==
  IF cur[t].kind = "MSG"
    THEN [stream_id |-> None, circuit_id |-> cur[t].id]
    ELSE [stream_id |-> cur[t].id, circuit_id |-> None]

\* a partial that binds the id to the other keyword
MakePartialSwapped(args) ==
  [stream_id |-> args.circuit_id, circuit_id |-> args.stream_id]

\* functools.partial(self._attach, circuit_id=...) or (..., stream_id=...)
MakePartial(args) ==
  IF args.circuit_id # None
    THEN [stream_id |-> None, circuit_id |-> args.circuit_id]
    ELSE [stream_id |-> args.stream_id, circuit_id |-> None]

\* calling the stored partial with the keyword of this call: a keyword given at the
\* call replaces the stored one; the result is the argument pair of _attach
CallPartial(partial, args) ==
  IF args.circuit_id # None
    THEN [partial EXCEPT !.circuit_id = args.circuit_id]
    ELSE [partial EXCEPT !.stream_id = args.stream_id]

\* the first half of prepare, under the lock:
\* attach = self.unattached.pop(port, None)
PreparePop(t, ev) ==
  /\ AttacherLockFree
  /\ attacher_lock' = t
  /\ popped' = [popped EXCEPT ![t] = unattached[ev.port]]
  /\ unattached' = [unattached EXCEPT ![ev.port] = NoPartial]
  /\ cur' = [cur EXCEPT ![t] = ev]
  /\ prep_log' = [prep_log EXCEPT ![ev.port] = Append(@, [kind |-> ev.kind, id |-> ev.id])]
  /\ pc' = [pc EXCEPT ![t] = "prep_act"]

\* an _attach that lets the client's rejection escape
AttachRaises(ok) == ok

\* Attacher._attach: controller.attach_stream(stream_id, circuit_id); a
\* stem.OperationFailed is caught and logged, so _attach returns normally whether
\* the client accepted the attach (ok) or rejected it
AttachReturns(ok) == TRUE

\* the second half: a pending attacher is completed (_attach calls
\* controller.attach_stream, which the client accepts or rejects), else the
\* partial is stored; the lock is released and the caller goes on to
\* check_finished
PrepareAct(t, ok) ==
  /\ pc[t] = "prep_act"
  /\ IF popped[t] # NoPartial
       THEN /\ attach_calls' = Append(attach_calls,
                 [stream_id |-> CallPartial(popped[t], PrepareArgs(t)).stream_id,
                  circuit_id |-> CallPartial(popped[t], PrepareArgs(t)).circuit_id,
                  port |-> cur[t].port])
            /\ attach_rejected' = IF ok THEN attach_rejected
                                  ELSE attach_rejected \cup {Len(attach_calls) + 1}
            /\ pc' = [pc EXCEPT ![t] = IF AttachReturns(ok) THEN "cf_enter"
                                       ELSE "exited"]
            /\ UNCHANGED unattached
       ELSE /\ ok
            /\ unattached' = [unattached EXCEPT ![cur[t].port] = MakePartial(PrepareArgs(t))]
            /\ pc' = [pc EXCEPT ![t] = "cf_enter"]
            /\ UNCHANGED <<attach_calls, attach_rejected>>
  /\ popped' = [popped EXCEPT ![t] = NoPartial]
  /\ cur' = [cur EXCEPT ![t] = NoEvent]
  /\ attacher_lock' = "free"
  /\ UNCHANGED <<aux_vars, arg_vars, main_vars, stats_vars, tor_vars, queue, prep_log, cf_vars,
                 e_tmp, worker_vars, hist_vars>>

\* ---- EventHandler.queue_reader ----

\* the client rejects close_circuit(cid) with InvalidArguments when it no longer
\* knows the circuit
CloseRejected(cid) == tor_circ[cid] # "built"

\* (circ_id, None): controller.close_circuit(circ_id), whose InvalidArguments is
\* caught and logged; finished_streams += 1, then check_finished
QueueToken ==
  /\ pc["Q"] = "idle"
  /\ queue # << >>
  /\ Head(queue)[2] = None
  /\ queue' = Tail(queue)
  /\ close_calls' = close_calls \cup {Head(queue)[1]}
  /\ finished_streams' = finished_streams + 1
  /\ pc' = [pc EXCEPT !["Q"] = "cf_enter"]
  /\ UNCHANGED <<aux_vars, arg_vars, main_vars, total_circuits, failed_circuits,
                 successful_circuits, failed_circuit_relays, pending_circuits, tor_circ,
                 stream_events, next_sid, att_vars, cf_vars, cur, popped, e_tmp, worker_vars, hist_vars>>

\* (circ_id, sockname): port = int(sockname[1]); attacher.prepare(port, circuit_id=circ_id)
QueueSockname ==
  /\ pc["Q"] = "idle"
  /\ queue # << >>
  /\ Head(queue)[2] # None
  /\ queue' = Tail(queue)
  /\ PreparePop("Q", [kind |-> "MSG", id |-> Head(queue)[1], status |-> "",
                      port |-> Head(queue)[2], reason |-> ""])
  /\ UNCHANGED <<aux_vars, arg_vars, main_vars, stats_vars, tor_vars, attach_calls, attach_rejected,
                 cf_vars, e_tmp, worker_vars, hist_vars>>

\* ---- EventHandler.new_stream ----

\* a new_stream that does not look at the status of the event
HasSourcePortAnyStatus(ev) == ev.port # None

\* util.get_source_port found the port of a NEW or NEWRESOLVE event
HasSourcePort(ev) == ev.status \in {"NEW", "NEWRESOLVE"} /\ ev.port # None

\* a STREAM NEW or NEWRESOLVE event with a source port:
\* attacher.prepare(port, stream_id=stream_event.id)
StreamEvent ==
  /\ pc["E"] = "idle"
  /\ stream_events # << >>
  /\ HasSourcePort(Head(stream_events))
  /\ stream_events' = Tail(stream_events)
  /\ PreparePop("E", [Head(stream_events) EXCEPT !.status = ""])
  /\ UNCHANGED <<aux_vars, arg_vars, main_vars, stats_vars, tor_circ, next_sid, close_calls, queue,
                 attach_calls, attach_rejected, cf_vars, e_tmp, worker_vars,
                 hist_vars>>

\* a STREAM event with any other status, or without a source port: new_stream
\* returns at once
IgnoredStreamEvent ==
  /\ pc["E"] = "idle"
  /\ stream_events # << >>
  /\ ~HasSourcePort(Head(stream_events))
  /\ stream_events' = Tail(stream_events)
  /\ UNCHANGED <<aux_vars, arg_vars, main_vars, stats_vars, tor_circ, next_sid, close_calls, queue,
                 att_vars, cf_vars, thread_vars, worker_vars, hist_vars>>

\* ---- probe workers (module_call) and their SOCKS sockets ----

\* local source ports of the sockets that are open
PortsInUse == {sock[c].port : c \in {d \in Circuits : sock[d].st # "closed"}}

\* sockets the probes of this run may still open
SocketBudget == MaxWork - total_circuits

\* the worker connects to the SOCKS port from a free local port and puts
\* (circ_id, sockname) on the queue.  The kernel hands out a port it handed out
\* before or a new one; new ports are numbered in the order of their first use.
SockOpen(c, p) ==
  /\ proc[c] = "running"
  /\ sock[c].st = "closed"
  /\ socks_opened < SocketBudget
  /\ p \notin PortsInUse
  /\ p <= ports_seen + 1
  /\ ports_seen' = IF p > ports_seen THEN p ELSE ports_seen
  /\ sock' = [sock EXCEPT ![c] = [port |-> p, st |-> "open"]]
  /\ socks_opened' = socks_opened + 1
  /\ queue' = Append(queue, <<c, p>>)
  /\ UNCHANGED <<aux_vars, arg_vars, main_vars, stats_vars, tor_vars, att_vars, cf_vars,
                 thread_vars, proc, proc_dests, pid_to_fingerprint, hist_vars>>

\* the worker sends its SOCKS request: the client emits STREAM NEW (CONNECT) or
\* NEWRESOLVE (RESOLVE) with the socket's source port
SockRequest(c, status) ==
  /\ proc[c] = "running"
  /\ sock[c].st = "open"
  /\ sock' = [sock EXCEPT ![c].st = "sent"]
  /\ stream_events' = Append(stream_events,
         [kind |-> "STREAM", id |-> next_sid, status |-> status,
          port |-> sock[c].port, reason |-> ""])
  /\ next_sid' = next_sid + 1
  /\ stream_owner' = Append(stream_owner, c)
  /\ UNCHANGED <<aux_vars, arg_vars, main_vars, stats_vars, tor_circ, close_calls, queue, att_vars, cf_vars,
                 thread_vars, proc, proc_dests, socks_opened, ports_seen, pid_to_fingerprint,
                 registered, early, circ_seen, built_handled>>

\* the stream of the SOCKS request the worker of circuit c sent last
CurrentStream(c) ==
  CHOOSE k \in 1..Len(stream_owner) :
    stream_owner[k] = c /\ \A j \in (k + 1)..Len(stream_owner) : stream_owner[j] # c

\* the socket is closed (after the reply, or on an error or timeout before the
\* request was sent); its port is free again, and the client emits STREAM CLOSED
\* for a stream that was requested
SockClose(c) ==
  /\ proc[c] = "running"
  /\ sock[c].st # "closed"
  /\ sock' = [sock EXCEPT ![c] = NoSock]
  /\ stream_events' =
       IF sock[c].st = "sent"
         THEN Append(stream_events,
                [kind |-> "STREAM", id |-> CurrentStream(c), status |-> "CLOSED",
                 port |-> sock[c].port, reason |-> ""])
         ELSE stream_events
  /\ UNCHANGED <<aux_vars, arg_vars, main_vars, stats_vars, tor_circ, next_sid, close_calls,
                 queue, att_vars, cf_vars,
                 thread_vars, proc, proc_dests, socks_opened, ports_seen, pid_to_fingerprint,
                 hist_vars>>

\* module(...) returned: queue.put((circ_id, None)); the process ends
WorkerFinish(c) ==
  /\ proc[c] = "running"
  /\ proc' = [proc EXCEPT ![c] = "finished"]
  /\ sock' = [sock EXCEPT ![c] = NoSock]
  /\ queue' = Append(queue, <<c, None>>)
  /\ UNCHANGED <<aux_vars, arg_vars, main_vars, stats_vars, tor_vars, att_vars, cf_vars,
                 thread_vars, proc_dests, socks_opened, ports_seen, pid_to_fingerprint, hist_vars>>

\* module(...) raised (anything but the SOCKS errors the wrapper catches), or the
\* process was killed: it ends without a token
WorkerDie(c) ==
  /\ proc[c] = "running"
  /\ proc' = [proc EXCEPT ![c] = "died"]
  /\ sock' = [sock EXCEPT ![c] = NoSock]
  /\ UNCHANGED <<aux_vars, arg_vars, main_vars, stats_vars, tor_vars, queue, att_vars, cf_vars,
                 thread_vars, proc_dests, socks_opened, ports_seen, pid_to_fingerprint, hist_vars>>

\* ---- modules/dnshealth.py: one probe ----

MaxRetries == 3          \* retries of a direct resolve_with_retry call: 0..MaxRetries

MAX_RETRIES == 3         \* DNS_MAX_RETRIES, attempts per relay
HARD_TIMEOUT == 180      \* DNS_HARD_TIMEOUT, seconds per probe

Null == "null"           \* None in a result field (null in the JSON record)

EXPECTED_IP == "64.65.4.1"
OtherIp == "1.2.3.4"

\* what sock.resolve returns: the address as bytes or as str
RawAnswers == [type : {"bytes", "str"}, text : {EXPECTED_IP, OtherIp}]

\* the text of a SOCKSv5Error: the reply code after "error " or after "0x0", or a
\* message without a code
SocksErrorTexts == [lead : {"error ", "0x0"}, digit : 0..9] \cup {[lead |-> "", digit |-> 0]}

\* how an attempt ends: sock.resolve returns, or an exception is raised in the try
AttemptOutcomes ==
  [kind : {"answer"}, raw : RawAnswers]
    \cup [kind : {"SOCKSv5Error"}, text : SocksErrorTexts]
    \cup [kind : {"socket.timeout", "EOFError", "FileNotFoundError",
                  "ConnectionRefusedError", "Exception"}]

\* time.time() differences an attempt can measure, in ms
ElapsedMs == {1, HARD_TIMEOUT * 1000}

\* _SOCKS_ERROR_MAP.get(code, "socks_error") with a misspelt token
SOCKS_ERROR_MAP_typo(code) ==
  CASE code = 1 -> "socks_general_failure"
    [] code = 2 -> "socks_ruleset_blocked"
    [] code = 3 -> "network_unreacheable"
    [] code = 4 -> "dns_fail"
    [] code = 5 -> "connection_refused"
    [] code = 6 -> "ttl_expired"
    [] code = 7 -> "socks_command_unsupported"
    [] code = 8 -> "socks_address_unsupported"
    [] OTHER -> "socks_error"

\* _SOCKS_ERROR_MAP.get(err_code, "socks_error")
SOCKS_ERROR_MAP(code) ==
  CASE code = 1 -> "socks_general_failure"
    [] code = 2 -> "socks_ruleset_blocked"
    [] code = 3 -> "network_unreachable"
    [] code = 4 -> "dns_fail"
    [] code = 5 -> "connection_refused"
    [] code = 6 -> "ttl_expired"
    [] code = 7 -> "socks_command_unsupported"
    [] code = 8 -> "socks_address_unsupported"
    [] OTHER -> "socks_error"

\* _SOCKS_ERROR_MESSAGES.get(err_code, "SOCKS %s: Unknown error" % err_code)
SOCKS_ERROR_MESSAGES(code) ==
  CASE code = 1 -> <<"SOCKS 1: General failure">>
    [] code = 2 -> <<"SOCKS 2: Not allowed by ruleset">>
    [] code = 3 -> <<"SOCKS 3: Network unreachable">>
    [] code = 4 -> <<"SOCKS 4: Domain not found (NXDOMAIN)">>
    [] code = 5 -> <<"SOCKS 5: Connection refused">>
    [] code = 6 -> <<"SOCKS 6: TTL expired">>
    [] code = 7 -> <<"SOCKS 7: Command not supported">>
    [] code = 8 -> <<"SOCKS 8: Address type not supported">>
    [] OTHER -> <<"SOCKS None: Unknown error">>

\* a parser whose pattern lacks the "0x0" alternative
parse_socks_error_code_no_hex(err_str) ==
  IF err_str.lead = "error " /\ err_str.digit \in 1..8 THEN err_str.digit ELSE None

\* _parse_socks_error_code: the digit 1-8 after "error" or "0x0", or None
parse_socks_error_code(err_str) ==
  IF err_str.lead \in {"error ", "0x0"} /\ err_str.digit \in 1..8
    THEN err_str.digit
    ELSE None

\* a normalisation that leaves bytes undecoded
normalize_ip_no_decode(value) ==
  IF value.type = "bytes" THEN "undecoded" ELSE value.text

\* _normalize_ip: bytes are decoded, anything else goes through str()
normalize_ip(value) == value.text

\* _make_result: the fields of the result dict the probe logic sets
make_result(status, resolved_ip, latency_ms, error_msg, attempt_no) ==
  [status |-> status, resolved_ip |-> resolved_ip, latency_ms |-> latency_ms,
   error |-> error_msg, attempt |-> attempt_no]

\* "mode": "wildcard" if expected_ip else "nxdomain"
mode == IF expected_ip # Null THEN "wildcard" ELSE "nxdomain"

\* the SOCKS reply code a SOCKSv5Error text carries, None when it carries none
ReplyCode(text) == IF text.lead = "" THEN None ELSE text.digit

\* history: an attempt ended with an answer, with SOCKS reply code 4, or otherwise
OutcomeClass(o) ==
  IF o.kind = "answer" THEN "answer"
  ELSE IF o.kind = "SOCKSv5Error" /\ ReplyCode(o.text) = 4 THEN "code4"
  ELSE "failure"

\* every SOCKS error gets the fallback token
FailureStatusFallback(o) ==
  CASE o.kind = "SOCKSv5Error" -> "socks_error"
    [] o.kind = "socket.timeout" -> "timeout"
    [] o.kind = "EOFError" -> "eof_error"
    [] o.kind = "FileNotFoundError" -> "tor_connection_lost"
    [] o.kind = "ConnectionRefusedError" -> "tor_connection_refused"
    [] OTHER -> "exception"

\* the status an except clause of resolve_with_retry sets
FailureStatus(o) ==
  CASE o.kind = "SOCKSv5Error" -> SOCKS_ERROR_MAP(parse_socks_error_code(o.text))
    [] o.kind = "socket.timeout" -> "timeout"
    [] o.kind = "EOFError" -> "eof_error"
    [] o.kind = "FileNotFoundError" -> "tor_connection_lost"
    [] o.kind = "ConnectionRefusedError" -> "tor_connection_refused"
    [] OTHER -> "exception"

\* the error message it sets
FailureError(o) ==
  CASE o.kind = "SOCKSv5Error" -> SOCKS_ERROR_MESSAGES(parse_socks_error_code(o.text))
    [] o.kind = "socket.timeout" -> <<"Timeout after 45s">>
    [] o.kind = "EOFError" -> <<"Connection closed unexpectedly">>
    [] o.kind = "FileNotFoundError" -> <<"Lost connection to Tor">>
    [] o.kind = "ConnectionRefusedError" -> <<"Tor refused connection">>
    [] OTHER -> <<o.kind>>

\* a loop that runs one attempt too many
RangeHasNextInclusive(a, n) == a <= n

\* "for attempt in range(1, retries + 1)": there is a next attempt after a
RangeHasNext(a, n) == a < n

\* the head of the for loop: the next attempt begins ("result['attempt'] = attempt",
\* then the try is entered and sock.resolve blocks), or the loop is exhausted and
\* resolve_with_retry returns the result
ForNext ==
  /\ pr_pc = "loop"
  /\ IF RangeHasNext(attempt, retries)
       THEN /\ attempt' = attempt + 1
            /\ result' = [result EXCEPT !.attempt = attempt + 1]
            /\ pr_pc' = "attempt"
       ELSE /\ pr_pc' = "returned"
            /\ UNCHANGED <<attempt, result>>
  /\ UNCHANGED <<pr_entry, expected_ip, retries, alarm, outcomes, last_outcome,
                 status_counts, written, sink_vars, grace_vars, ext_vars, arg_vars, main_vars, stats_vars,
                 tor_vars, queue, att_vars, cf_vars, thread_vars, worker_vars,
                 hist_vars>>

\* sock.resolve returned an address: lines 237-252
AnswerResult(o, ms) ==
  LET ip == normalize_ip(o.raw)
      r  == [result EXCEPT !.resolved_ip = ip, !.latency_ms = <<ms>>]
  IN  IF expected_ip # Null
        THEN IF ip = expected_ip
               THEN [r EXCEPT !.status = "success"]
               ELSE [r EXCEPT !.status = "wrong_ip",
                              !.error = <<"Expected", expected_ip, "got", ip>>]
        ELSE [r EXCEPT !.status = "success"]

\* SOCKSv5Error with code 4: lines 260-269
NxdomainResult(ms) ==
  LET r == [result EXCEPT !.latency_ms = <<ms>>]
  IN  IF expected_ip # Null
        THEN [r EXCEPT !.status = "dns_fail",
                       !.error = <<"SOCKS 4: Domain not found (NXDOMAIN)">>]
        ELSE [r EXCEPT !.status = "success", !.resolved_ip = "NXDOMAIN"]

\* the common handling of a failed attempt: lines 314-321
FailedAttempt(status, error_msg, ms) ==
  /\ result' = [result EXCEPT !.latency_ms = <<ms>>, !.status = status,
                              !.error = error_msg]
  /\ pr_pc' = IF attempt < retries THEN "sleep" ELSE "loop"

\* an attempt ends: an answer or reply code 4 returns the result, anything else is
\* recorded in the result and the loop goes on
AttemptEnds(o, ms) ==
  /\ pr_pc = "attempt"
  /\ outcomes' = Append(outcomes, OutcomeClass(o))
  /\ last_outcome' = o
  /\ IF o.kind = "answer"
       THEN result' = AnswerResult(o, ms) /\ pr_pc' = "returned"
       ELSE IF o.kind = "SOCKSv5Error" /\ parse_socks_error_code(o.text) = 4
         THEN result' = NxdomainResult(ms) /\ pr_pc' = "returned"
         ELSE FailedAttempt(FailureStatus(o), FailureError(o), ms)
  /\ UNCHANGED <<pr_entry, expected_ip, retries, attempt, alarm,
                 status_counts, written, sink_vars, grace_vars, ext_vars, arg_vars, main_vars, stats_vars,
                 tor_vars, queue, att_vars, cf_vars, thread_vars, worker_vars,
                 hist_vars>>

\* time.sleep(RETRY_DELAY) is over
SleepOver ==
  /\ pr_pc = "sleep"
  /\ pr_pc' = "loop"
  /\ UNCHANGED <<pr_entry, expected_ip, retries, attempt, result, alarm, outcomes,
                 last_outcome, status_counts, written, sink_vars, grace_vars, ext_vars, arg_vars, main_vars,
                 stats_vars, tor_vars, queue, att_vars, cf_vars, thread_vars,
                 worker_vars, hist_vars>>

\* the alarm goes off while the attempt is inside the try (blocked in
\* sock.resolve): _timeout_handler raises HardTimeoutError there, and the clause
\* "except Exception" of resolve_with_retry catches it like any failed attempt
AlarmInAttempt(ms) ==
  /\ alarm = "armed"
  /\ pr_pc = "attempt"
  /\ alarm' = "spent"
  /\ outcomes' = Append(outcomes, "failure")
  /\ last_outcome' = [kind |-> "HardTimeoutError"]
  /\ FailedAttempt("exception", <<"HardTimeoutError">>, ms)
  /\ UNCHANGED <<pr_entry, expected_ip, retries, attempt, status_counts, written,
                 sink_vars, grace_vars, ext_vars, arg_vars, main_vars, stats_vars, tor_vars, queue,
                 att_vars, cf_vars, thread_vars, worker_vars, hist_vars>>

\* the alarm goes off outside the try (in time.sleep or at the loop head):
\* HardTimeoutError leaves resolve_with_retry and do_validation builds the
\* hard_timeout result
AlarmOutsideTry ==
  /\ alarm = "armed"
  /\ pr_pc \in {"sleep", "loop"}
  /\ alarm' = "spent"
  /\ result' = make_result("hard_timeout", Null, <<HARD_TIMEOUT * 1000>>,
                           <<"Hard timeout after 180s">>, MAX_RETRIES)
  /\ pr_pc' = "interrupted"
  /\ UNCHANGED <<pr_entry, expected_ip, retries, attempt, outcomes, last_outcome,
                 status_counts, written, sink_vars, grace_vars, ext_vars, arg_vars, main_vars, stats_vars,
                 tor_vars, queue, att_vars, cf_vars, thread_vars, worker_vars,
                 hist_vars>>

\* an exception other than HardTimeoutError is raised in resolve_with_retry
\* outside its try (exiturl, _make_result, logging, time.sleep): it leaves
\* resolve_with_retry, and do_validation builds the exception result
UnexpectedException ==
  /\ pr_pc \in {"loop", "sleep"}
  /\ IF pr_entry = "do_validation"
       THEN /\ result' = make_result("exception", Null, << >>, <<"Exception">>, 0)
            /\ pr_pc' = "interrupted"
       ELSE /\ result' = result
            /\ pr_pc' = "raised"
  /\ UNCHANGED <<pr_entry, expected_ip, retries, attempt, alarm, outcomes, last_outcome,
                 status_counts, written, sink_vars, grace_vars, ext_vars, arg_vars, main_vars,
                 stats_vars, tor_vars, queue, att_vars, cf_vars, thread_vars, worker_vars,
                 hist_vars>>

\* a sink that writes the record whether or not a directory is set
write_result_always(ok) ==
  /\ written' = Append(written, result)
  /\ write_errors' = write_errors

\* _write_result(result, fp): nothing without util.analysis_dir; an exception of
\* open or json.dump is logged and no record is written
write_result(ok) ==
  IF ~analysis_dir
    THEN /\ written' = written
         /\ write_errors' = write_errors
    ELSE IF ok
      THEN /\ written' = Append(written, result)
           /\ write_errors' = write_errors
      ELSE /\ written' = written
           /\ write_errors' = write_errors + 1

\* the end of do_validation: the alarm is cancelled,
\* _status_counts[result["status"]] += 1 and _write_result(result, fp)
RecordResult(ok) ==
  /\ pr_entry = "do_validation"
  /\ pr_pc \in {"returned", "interrupted"}
  /\ alarm' = IF alarm = "armed" THEN "off" ELSE alarm
  /\ status_counts' = Append(status_counts, result.status)
  /\ write_result(ok)
  /\ pr_pc' = "recorded"
  /\ UNCHANGED <<pr_entry, expected_ip, retries, attempt, result, outcomes,
                 last_outcome, analysis_dir, orch_status_counts, teardown_total,
                 grace_vars, ext_vars, arg_vars, main_vars, stats_vars, tor_vars,
                 queue, att_vars, cf_vars, thread_vars, worker_vars, hist_vars>>

\* "total = sum(_status_counts.values())" in dnshealth.teardown, which
\* check_finished calls in the orchestrator process
TeardownTotal == Len(orch_status_counts)

\* dnshealth.teardown: the orchestrator logs the summary of its _status_counts
ModuleTeardown ==
  /\ pr_entry = "do_validation"
  /\ teardown_total = << >>
  /\ teardown_total' = <<TeardownTotal>>
  /\ UNCHANGED <<pr_entry, expected_ip, retries, pr_pc, attempt, result, alarm, outcomes,
                 last_outcome, status_counts, written, analysis_dir, write_errors,
                 orch_status_counts, grace_vars, ext_vars, arg_vars, main_vars,
                 stats_vars, tor_vars, queue, att_vars, cf_vars, thread_vars, worker_vars,
                 hist_vars>>

\* ---- the grace wait of check_finished ----

MaxGrace  == 6           \* EXITMAP_GRACE_TIMEOUT is 0..MaxGrace seconds
MaxActive == 8           \* at most this many live children at the shutdown

\* a split that rounds the share up
GraceSplitCeil(G, n) ==
  IF (G + n - 1) \div n >= 1 THEN (G + n - 1) \div n ELSE 1

\* per_proc = max(1, int(os.environ.get("EXITMAP_GRACE_TIMEOUT", "10")) // len(active))
GraceSplit(G, n) == IF G \div n >= 1 THEN G \div n ELSE 1

\* "terminated, active = [], multiprocessing.active_children()"; "if active:" the
\* timeout is split
GraceBegin ==
  /\ g_pc = "start"
  /\ IF active > 0
       THEN per_proc' = GraceSplit(grace_timeout, active) /\ g_pc' = "joining"
       ELSE per_proc' = per_proc /\ g_pc' = "done"
  /\ UNCHANGED <<grace_timeout, active, joined, waited, probe_vars, ext_vars, arg_vars,
                 main_vars, stats_vars, tor_vars, queue, att_vars, cf_vars,
                 thread_vars, worker_vars, hist_vars>>

\* "for proc in active: proc.join(timeout=per_proc)": one more child is waited on
\* with a budget of per_proc seconds
GraceJoin ==
  /\ g_pc = "joining"
  /\ joined' = joined + 1
  /\ waited' = waited + per_proc
  /\ g_pc' = IF joined + 1 = active THEN "done" ELSE "joining"
  /\ UNCHANGED <<grace_timeout, active, per_proc, probe_vars, ext_vars, arg_vars,
                 main_vars, stats_vars, tor_vars, queue, att_vars, cf_vars,
                 thread_vars, worker_vars, hist_vars>>

\* ---- main of exitmap.py: the loop over the modules of the command line ----

MaxModules == 2          \* at most this many modules on the command line
MaxExits   == 2          \* select_exits yields 0..MaxExits exits for a module

Modules == 1..MaxModules

NoStatus == "running"    \* main has not returned yet

\* "return 0" at the end of main
ReturnAfterLoop == 0

\* the first-hop check of main: "return 1" when the given first hop is not in
\* the consensus, else the loop over args.module begins
MainFirstHopCheck ==
  /\ main_pc = "start"
  /\ IF first_hop_in_consensus
       THEN main_pc' = "for_module" /\ exit_status' = exit_status
       ELSE main_pc' = "returned" /\ exit_status' = 1
  /\ UNCHANGED <<args_module, args_redundancy, first_hop_in_consensus, importable,
                 selection, mod_idx, run_total, requests, raised, errors_logged,
                 not_orch>>

\* the head of "for module_name in args.module": the next module is run, or the
\* loop is over and main returns
MainForModule ==
  /\ main_pc = "for_module"
  /\ IF mod_idx < args_module
       THEN /\ mod_idx' = mod_idx + 1
            /\ main_pc' = "run_module"
            /\ exit_status' = exit_status
       ELSE /\ mod_idx' = mod_idx
            /\ main_pc' = "returned"
            /\ exit_status' = ReturnAfterLoop
  /\ UNCHANGED <<args_module, args_redundancy, first_hop_in_consensus, importable,
                 selection, run_total, requests, raised, errors_logged,
                 not_orch>>

\* run_module up to the call of iter_exit_relays: an ImportError is logged and
\* run_module returns; else the exits are selected, total_circuits grows by
\* count * args.redundancy, and "if count < 1" ExitSelectionError is raised, which
\* main catches and logs
RunModule ==
  /\ main_pc = "run_module"
  /\ IF mod_idx \notin importable
       THEN /\ main_pc' = "for_module"
            /\ UNCHANGED <<run_total, raised, errors_logged>>
       ELSE /\ run_total' = run_total + selection[mod_idx] * args_redundancy
            /\ IF selection[mod_idx] < 1
                 THEN /\ raised' = raised \cup {mod_idx}
                      /\ errors_logged' = errors_logged + 1
                      /\ main_pc' = "for_module"
                 ELSE /\ main_pc' = "iter_exit_relays"
                      /\ UNCHANGED <<raised, errors_logged>>
  /\ UNCHANGED <<args_module, args_redundancy, first_hop_in_consensus, importable,
                 selection, mod_idx, requests, exit_status,
                 not_orch>>

\* iter_exit_relays: one more controller.new_circuit(hops) of the module; after
\* len(exit_relays) * redundancy of them run_module returns
IterRequest ==
  /\ main_pc = "iter_exit_relays"
  /\ requests' = [requests EXCEPT ![mod_idx] = @ + 1]
  /\ main_pc' = IF requests[mod_idx] + 1 = selection[mod_idx] * args_redundancy
                  THEN "for_module" ELSE "iter_exit_relays"
  /\ UNCHANGED <<args_module, args_redundancy, first_hop_in_consensus, importable,
                 selection, mod_idx, run_total, raised, errors_logged, exit_status,
                 not_orch>>

\* ---- calls of stats.get_circuit_failure_info ----

MaxInfoCalls == 2        \* calls of get_circuit_failure_info in one run

\* the reasons given: every word in every spelling, None and the empty string
ReasonInputs ==
  [word : DOMAIN LowerCase, spelling : Spellings]
    \cup [word : {NoReason, ""}, spelling : {"none"}]

\* the value of circ_event.reason for an input
Given(inp) == IF inp.spelling = "none" THEN inp.word ELSE Spell(inp.word, inp.spelling)

\* reason_key, error_msg = get_circuit_failure_info(circ_event.reason)
FailureInfoCall(inp) ==
  /\ Len(info_calls) < MaxInfoCalls
  /\ info_calls' = Append(info_calls,
       [input |-> inp, reason |-> Given(inp),
        reason_key |-> get_circuit_failure_info(Given(inp))])
  /\ UNCHANGED not_info

\* ---- dnshealth.generate_unique_query ----

MaxQueries == 2          \* calls of generate_unique_query in one run
MaxFingerprintLen == 9   \* fingerprints have 0..MaxFingerprintLen characters

FP_PREFIX == 8           \* "fingerprint[:8]"

\* the UUIDs of the model
Uuids == 1..MaxQueries

\* characters of a fingerprint, and str.lower() on them
LowerChar == ("A" :> "a") @@ ("a" :> "a") @@ ("1" :> "1")

\* the fingerprints given: n characters "A", the last one replaced
Fingerprints ==
  {[i \in 1..n |-> IF i = n THEN last ELSE "A"] :
     n \in 0..MaxFingerprintLen, last \in DOMAIN LowerChar}

BaseDomains == {"example.com", "sub.domain.example.co.uk"}

\* uuid.uuid4().hex: the 32 hexadecimal digits of a UUID
hex(u) == <<"hex32", u>>

\* text[:n]
Prefix(text, n) == SubSeq(text, 1, IF Len(text) < n THEN Len(text) ELSE n)

\* text.lower()
lower(text) == [i \in DOMAIN text |-> LowerChar[text[i]]]

\* a query name that leaves the UUID label constant
generate_query_without_uuid(u, fingerprint, base_domain) ==
  <<hex(0), lower(Prefix(fingerprint, FP_PREFIX)), base_domain>>

\* "%s.%s.%s" % (uuid.uuid4().hex, fingerprint[:8].lower(), base_domain), as the
\* three parts the dots join; u is the UUID uuid4 returned
generate_unique_query(u, fingerprint, base_domain) ==
  <<hex(u), lower(Prefix(fingerprint, FP_PREFIX)), base_domain>>

\* one call of generate_unique_query; uuid.uuid4() returns a UUID it has not
\* returned before
QueryCall(u, fingerprint, base_domain) ==
  /\ Len(queries) < MaxQueries
  /\ u \notin issued
  /\ issued' = issued \cup {u}
  /\ queries' = Append(queries,
       [fingerprint |-> fingerprint, base_domain |-> base_domain,
        query |-> generate_unique_query(u, fingerprint, base_domain)])
  /\ UNCHANGED not_query

\* ---- the system ----

Next ==
  \/ NewCircuitOk
  \/ NewCircuitError
  \/ RegisterCircuit
  \/ RecordImmediateFailureStore
  \/ \E c \in Circuits : LaunchedCircEvent(c)
  \/ \E c \in Circuits : ClosedCircEvent(c)
  \/ \E c \in Circuits : BuiltCircEvent(c)
  \/ \E c \in Circuits, r \in Reasons : FailedCircEventLoad(c, r)
  \/ FailedCircEventStore
  \/ \E t \in Threads : CheckFinishedEnter(t)
  \/ \E t \in Threads : CheckFinishedEval(t)
  \/ \E t \in Threads : CheckFinishedTeardown(t)
  \/ SpawnProbe
  \/ RecordPid
  \/ SpawnNoDescriptor
  \/ \E t \in Threads, ok \in BOOLEAN : PrepareAct(t, ok)
  \/ QueueToken
  \/ QueueSockname
  \/ StreamEvent
  \/ IgnoredStreamEvent
  \/ \E c \in Circuits, p \in Ports : SockOpen(c, p)
  \/ \E c \in Circuits, s \in {"NEW", "NEWRESOLVE"} : SockRequest(c, s)
  \/ \E c \in Circuits : SockClose(c)
  \/ \E c \in Circuits : WorkerFinish(c)
  \/ \E c \in Circuits : WorkerDie(c)

\* ======================= exitmap.iter_exit_relays: the hops =======================

Relays == 1..MaxRelays

\* the shuffled exit list: distinct relays (the keys of exit_destinations)
ExitLists ==
  {l \in UNION {[1..n -> Relays] : n \in 1..MaxExits} :
     \A a, b \in 1..Len(l) : a # b => l[a] # l[b]}

\* the exit of the circuit being set up
exit_relay == exit_relays[hop_i]

\* the next position of the two nested for loops
HopAdvance ==
  IF hop_r < hop_redundancy
    THEN /\ hop_r' = hop_r + 1 /\ hop_i' = hop_i
         /\ hop_pc' = "hops"
    ELSE IF hop_i < Len(exit_relays)
      THEN /\ hop_i' = hop_i + 1 /\ hop_r' = 1
           /\ hop_pc' = "hops"
      ELSE /\ hop_i' = hop_i /\ hop_r' = hop_r
           /\ hop_pc' = "done"

AcceptsAny(candidate, exit) == TRUE

\* "if first_hop != exit_relay: break"
Accepts(candidate, exit) == candidate # exit

\* "if args.hop_first: hops = [args.hop_first, exit_relay]"
PinnedHops ==
  /\ hop_pc = "hops"
  /\ args_first_hop # None
  /\ hop_first' = args_first_hop
  /\ hop_pc' = "new_circuit"
  /\ UNCHANGED <<args_first_hop, fingerprints, exit_relays, hop_redundancy, hop_i, hop_r,
                 rejected, new_circuit_calls, not_hop>>

\* one round of "while True: first_hop = random.choice(fingerprints)"
RandomChoice(candidate) ==
  /\ hop_pc = "hops"
  /\ args_first_hop = None
  /\ candidate \in fingerprints
  /\ hop_first' = candidate
  /\ IF Accepts(candidate, exit_relay)
       THEN /\ hop_pc' = "new_circuit"
            /\ rejected' = rejected
       ELSE /\ hop_pc' = "hops"
            /\ rejected' = IF rejected < MaxRejected THEN rejected + 1 ELSE rejected
  /\ UNCHANGED <<args_first_hop, fingerprints, exit_relays, hop_redundancy, hop_i, hop_r,
                 new_circuit_calls, not_hop>>

\* random.choice of an empty list raises IndexError out of iter_exit_relays
RandomChoiceEmpty ==
  /\ hop_pc = "hops"
  /\ args_first_hop = None
  /\ fingerprints = {}
  /\ hop_pc' = "raised"
  /\ UNCHANGED <<args_first_hop, fingerprints, exit_relays, hop_redundancy, hop_i, hop_r,
                 hop_first, rejected, new_circuit_calls, not_hop>>

\* controller.new_circuit(hops), registered or recorded as an immediate failure,
\* and the step of the for loops
NewCircuitCall ==
  /\ hop_pc = "new_circuit"
  /\ new_circuit_calls' = Append(new_circuit_calls, <<hop_first, exit_relay>>)
  /\ rejected' = 0
  /\ HopAdvance
  /\ UNCHANGED <<args_first_hop, fingerprints, exit_relays, hop_redundancy, hop_first,
                 not_hop>>


\* no probe is modelled
ProbeIdle ==
  /\ pr_entry = "none" /\ expected_ip = Null /\ retries = 0
  /\ pr_pc = "idle" /\ attempt = 0
  /\ result = make_result("unknown", Null, << >>, << >>, 0)
  /\ alarm = "off"
  /\ outcomes = << >> /\ last_outcome = [kind |-> "none"]
  /\ status_counts = << >> /\ written = << >>
  /\ analysis_dir = FALSE /\ write_errors = 0
  /\ orch_status_counts = << >> /\ teardown_total = << >>

\* no grace wait is modelled
GraceIdle ==
  /\ grace_timeout = 0 /\ active = 0 /\ g_pc = "idle"
  /\ per_proc = 0 /\ joined = 0 /\ waited = 0

\* main is not modelled
OrchIdle ==
  /\ args_module = 0 /\ args_redundancy = 1 /\ first_hop_in_consensus = TRUE
  /\ importable = {} /\ selection = << >>
  /\ main_pc = "idle" /\ mod_idx = 0 /\ run_total = 0
  /\ requests = << >> /\ raised = {} /\ errors_logged = 0
  /\ exit_status = NoStatus

\* get_circuit_failure_info is not called
InfoIdle == info_calls = << >>

\* generate_unique_query is not called
QueryIdle == issued = {} /\ queries = << >>

\* iter_exit_relays' hop selection is not modelled
HopIdle ==
  /\ args_first_hop = None /\ fingerprints = {} /\ exit_relays = << >>
  /\ hop_redundancy = 1 /\ hop_pc = "idle" /\ hop_i = 0 /\ hop_r = 0
  /\ hop_first = None /\ rejected = 0 /\ new_circuit_calls = << >>

ExtIdle == OrchIdle /\ InfoIdle /\ QueryIdle /\ HopIdle

Init == ScanInit /\ ProbeIdle /\ GraceIdle /\ ExtIdle

Spec == Init /\ [][Next]_vars

\* ---- one probe: do_validation (as probe calls it, under the alarm), or
\* resolve_with_retry called on its own with any retries ----

ProbeInit ==
  /\ ScanInit /\ count = 1 /\ redundancy = 1
  /\ GraceIdle /\ ExtIdle
  /\ pr_entry \in {"do_validation", "resolve_with_retry"}
  /\ expected_ip \in {Null, EXPECTED_IP}
  /\ retries \in IF pr_entry = "do_validation" THEN {MAX_RETRIES} ELSE 0..MaxRetries
  /\ pr_pc = "loop" /\ attempt = 0
  /\ result = make_result("unknown", Null, << >>, << >>, 0)
  /\ alarm = IF pr_entry = "do_validation" THEN "armed" ELSE "off"
  /\ outcomes = << >> /\ last_outcome = [kind |-> "none"]
  /\ status_counts = << >> /\ written = << >>
  /\ analysis_dir \in BOOLEAN /\ write_errors = 0
  /\ orch_status_counts = << >> /\ teardown_total = << >>

ProbeNext ==
  \/ ForNext
  \/ \E o \in AttemptOutcomes, ms \in ElapsedMs : AttemptEnds(o, ms)
  \/ SleepOver
  \/ \E ms \in ElapsedMs : AlarmInAttempt(ms)
  \/ AlarmOutsideTry
  \/ UnexpectedException
  \/ \E ok \in BOOLEAN : RecordResult(ok)
  \/ ModuleTeardown

ProbeSpec == ProbeInit /\ [][ProbeNext]_vars

\* ---- one grace wait ----

GraceInit ==
  /\ ScanInit /\ count = 1 /\ redundancy = 1
  /\ ProbeIdle /\ ExtIdle
  /\ grace_timeout \in 0..MaxGrace
  /\ active \in 0..MaxActive
  /\ g_pc = "start" /\ per_proc = 0 /\ joined = 0 /\ waited = 0

GraceNext == GraceBegin \/ GraceJoin

GraceSpec == GraceInit /\ [][GraceNext]_vars

\* ---- one run of main ----

OrchInit ==
  /\ ScanInit /\ count = 1 /\ redundancy = 1
  /\ ProbeIdle /\ GraceIdle /\ InfoIdle /\ QueryIdle /\ HopIdle
  /\ args_module \in 1..MaxModules
  /\ args_redundancy \in 1..2
  /\ first_hop_in_consensus \in BOOLEAN
  /\ importable \in SUBSET (1..args_module)
  /\ selection \in [1..args_module -> 0..MaxExits]
  /\ main_pc = "start" /\ mod_idx = 0 /\ run_total = 0
  /\ requests = [m \in 1..args_module |-> 0]
  /\ raised = {} /\ errors_logged = 0
  /\ exit_status = NoStatus

OrchNext == MainFirstHopCheck \/ MainForModule \/ RunModule \/ IterRequest

OrchSpec == OrchInit /\ [][OrchNext]_vars

\* ---- get_circuit_failure_info on its own ----

InfoInit ==
  /\ ScanInit /\ count = 1 /\ redundancy = 1
  /\ ProbeIdle /\ GraceIdle /\ OrchIdle /\ QueryIdle /\ HopIdle
  /\ info_calls = << >>

InfoNext == \E inp \in ReasonInputs : FailureInfoCall(inp)

InfoSpec == InfoInit /\ [][InfoNext]_vars

\* ---- generate_unique_query on its own ----

QueryInit ==
  /\ ScanInit /\ count = 1 /\ redundancy = 1
  /\ ProbeIdle /\ GraceIdle /\ OrchIdle /\ InfoIdle /\ HopIdle
  /\ issued = {} /\ queries = << >>

QueryNext ==
  \E u \in Uuids, fingerprint \in Fingerprints, base_domain \in BaseDomains :
    QueryCall(u, fingerprint, base_domain)

QuerySpec == QueryInit /\ [][QueryNext]_vars


\* ---- the hop selection of iter_exit_relays on its own ----

HopInit ==
  /\ ScanInit /\ count = 1 /\ redundancy = 1
  /\ ProbeIdle /\ GraceIdle /\ OrchIdle /\ InfoIdle /\ QueryIdle
  /\ args_first_hop \in {None} \cup Relays
  /\ fingerprints \in SUBSET Relays
  /\ (args_first_hop # None => fingerprints = {})
  /\ exit_relays \in ExitLists
  /\ hop_redundancy \in 1..2
  /\ hop_pc = "hops" /\ hop_i = 1 /\ hop_r = 1
  /\ hop_first = None /\ rejected = 0 /\ new_circuit_calls = << >>

HopNext ==
  \/ PinnedHops
  \/ \E candidate \in Relays : RandomChoice(candidate)
  \/ RandomChoiceEmpty
  \/ NewCircuitCall

HopSpec == HopInit /\ [][HopNext]_vars


\* ======================= properties =======================

\* ---- Attacher ----

\* the prepare calls on a port come in pairs of one circuit id and one stream id
PairsAlternate(log) ==
  \A i \in 1..(Len(log) \div 2) : log[2 * i - 1].kind # log[2 * i].kind

\* no prepare call on the port is between its pop and its attach-or-store
NoPrepareInProgress(p) ==
  \A t \in Threads : pc[t] = "prep_act" => cur[t].port # p

\* the attach_stream call the i-th pair of calls on a port has to produce
PairAttach(p, i) ==
  LET a == prep_log[p][2 * i - 1]
      b == prep_log[p][2 * i]
  IN  [stream_id  |-> IF a.kind = "STREAM" THEN a.id ELSE b.id,
       circuit_id |-> IF a.kind = "MSG" THEN a.id ELSE b.id,
       port |-> p]

AttachesOf(call) == {k \in 1..Len(attach_calls) : attach_calls[k] = call}
AttachesOn(p)    == {k \in 1..Len(attach_calls) : attach_calls[k].port = p}

\* C1: when the prepare calls on a port come as pairs of one circuit id and one
\* stream id (in either order, from the two threads), each completed pair has
\* produced exactly one attach_stream(S, C) call with the pair's ids, no other
\* attach was made for the port, and after a completed pair the port has no entry.
C1_AttacherAtomicity ==
  \A p \in Ports :
    (PairsAlternate(prep_log[p]) /\ NoPrepareInProgress(p)) =>
      /\ \A i \in 1..(Len(prep_log[p]) \div 2) :
           Cardinality(AttachesOf(PairAttach(p, i))) = 1
      /\ Cardinality(AttachesOn(p)) = Len(prep_log[p]) \div 2
      /\ (Len(prep_log[p]) % 2 = 0 => unattached[p] = NoPartial)

\* two pairs were completed on one port, one begun by the stream and one by the
\* circuit id, and both were attached
C1_Witness ==
  \E p \in Ports :
    /\ Len(prep_log[p]) = 4
    /\ PairsAlternate(prep_log[p])
    /\ prep_log[p][1].kind # prep_log[p][3].kind
    /\ NoPrepareInProgress(p)
    /\ Cardinality(AttachesOn(p)) = 2
    /\ unattached[p] = NoPartial

\* C2: every attach_stream(S, C) call attaches a stream to the circuit of the
\* worker whose socket produced the stream.
C2_CircuitPinning ==
  \A k \in 1..Len(attach_calls) :
    /\ attach_calls[k].stream_id \in 1..Len(stream_owner)
    /\ stream_owner[attach_calls[k].stream_id] = attach_calls[k].circuit_id

\* ---- check_finished ----

\* threads that are in the shutdown sequence (grace wait, termination, teardown)
InShutdown == {t \in Threads : pc[t] = "cf_grace"}

\* C3: the shutdown sequence is run by at most one execution of check_finished:
\* the executions in it and the teardowns already done are never more than one, so
\* a call made after the first firing has none.
C3_FiresAtMostOnce == Cardinality(InShutdown) + teardowns <= 1

\* one thread ran the teardown and the other called check_finished afterwards and
\* left without one
C3_Witness ==
  /\ teardowns = 1
  /\ \A t \in Threads : pc[t] = "exited"

\* C4: in the step in which check_finished fires, every built circuit has had its
\* completion token counted.
C4_AllProbesDoneAtFire ==
  [][(~already_finished /\ already_finished') =>
       finished_streams' = successful_circuits']_vars

\* nothing is in progress and nothing is left to deliver: the main loop is done, both
\* threads wait (or are gone), the queue and the client's event stream are empty, no
\* probe runs and no circuit is waiting for an event
AtRest ==
  /\ m_pc = "done"
  /\ \A t \in Threads : pc[t] \in {"idle", "exited"}
  /\ queue = << >>
  /\ stream_events = << >>
  /\ \A c \in Circuits : proc[c] # "running"
  /\ \A c \in Circuits : tor_circ[c] \in {"none", "failed", "closed"}

\* C5: once every requested circuit has had its outcome, every probe has ended and
\* every message and event has been handled, check_finished has fired.
C5_Termination == AtRest => already_finished

\* the termination condition as the specification states it
TerminationCondition ==
  /\ (failed_circuits + successful_circuits) = total_circuits
  /\ finished_streams >= (successful_circuits - failed_circuits)

C7_OneWorkerPerBuilt ==
  /\ \A c \in built_handled :
       proc[c] # "none" /\ proc_dests[c] = exit_destinations(ExitOf(c))
  /\ \A c \in Circuits :
       proc[c] # "none" => tor_circ[c] \in {"built", "closed"}

\* ---- Statistics ----

\* circuits the client was asked for that have neither built nor failed
InFlight == Cardinality({c \in Circuits : tor_circ[c] \in {"requested", "launched"}})

\* C8: finished_streams never exceeds successful_circuits, and once the scan is
\* declared finished total_circuits is the sum of the successful, the failed and
\* the in-flight circuits.
C8_StatisticsAccounting ==
  /\ finished_streams <= successful_circuits
  /\ already_finished =>
       total_circuits = successful_circuits + failed_circuits + InFlight

\* the run completed after at least one probe finished and one circuit failed
C8_Witness ==
  /\ teardowns = 1
  /\ finished_streams >= 1
  /\ failed_circuits >= 1

\* C9: every circuit id of a processed CIRC event was registered before the event,
\* or has a failure record under UNRESOLVED_<cid>.
C9_RegistryCompleteness ==
  \A c \in circ_seen :
    c \notin early \/ <<"UNRESOLVED", c>> \in DOMAIN failed_circuit_relays

\* C10: no CIRC event is processed before its circuit id is registered.
C10_RegisteredBeforeEvents == early = {}

\* the terminal CIRC event (BUILT or FAILED) of the circuit has been processed by
\* update_circs
TerminalProcessed(c) ==
  \/ tor_circ[c] \in {"built", "closed"}
  \/ tor_circ[c] = "failed" /\ ~(pc["E"] = "failed_store" /\ cur["E"].id = c)

\* C11: a circuit id is in pending_circuits exactly from its registration until its
\* terminal CIRC event has been processed; afterwards it is absent for good, so the
\* table is empty once every circuit is terminal.
C11_PendingLifecycle ==
  \A c \in Circuits :
    (c \in DOMAIN pending_circuits) <=> (c \in registered /\ ~TerminalProcessed(c))

\* ---- stale attacher entries ----

\* the probe worker whose socket a stored partial belongs to
PartialOwner(partial) ==
  IF partial.circuit_id # None THEN partial.circuit_id
  ELSE stream_owner[partial.stream_id]

\* nothing for the port is still on its way to prepare
NoCounterpartPending(p) ==
  /\ \A i \in 1..Len(queue) : queue[i][2] # p
  /\ \A i \in 1..Len(stream_events) : stream_events[i].port # p
  /\ NoPrepareInProgress(p)

\* C17: when the shutdown kills the worker that owns a port's stored partial, and
\* no counterpart for the port is on its way, the port's entry is gone from the
\* unattached table.
C17_StaleEntriesReaped ==
  [][teardowns' = teardowns + 1 =>
       \A p \in Ports :
         (/\ unattached[p] # NoPartial
          /\ NoCounterpartPending(p)
          /\ proc[PartialOwner(unattached[p])] = "running") =>
           unattached'[p] = NoPartial]_vars

\* ---- stragglers ----

RejectedPorts == {attach_calls[k].port : k \in attach_rejected}

\* the pairs completed on the ports without a rejection were all attached
OtherPortsMatch ==
  \A q \in Ports \ RejectedPorts :
    (PairsAlternate(prep_log[q]) /\ NoPrepareInProgress(q)) =>
      /\ Cardinality(AttachesOn(q)) = Len(prep_log[q]) \div 2
      /\ (Len(prep_log[q]) % 2 = 0 => unattached[q] = NoPartial)

\* C18: when the client rejects the attach of a matched pair, prepare returns to
\* its caller (which goes on to check_finished), exactly one attach_stream call was
\* made for the pair, the port's slot is empty and the lock is free; the pairs of
\* the other ports are matched as before.
C18_AttachRejectionDropped ==
  [][\A t \in Threads :
       (pc[t] = "prep_act" /\ pc'[t] # "prep_act"
          /\ attach_rejected' # attach_rejected) =>
         /\ pc'[t] = "cf_enter"
         /\ Len(attach_calls') = Len(attach_calls) + 1
         /\ unattached'[cur[t].port] = NoPartial
         /\ attacher_lock' = "free"
         /\ OtherPortsMatch']_vars

\* an attach was rejected on one port and a pair that arrived later on another
\* port was attached
C18_Witness ==
  \E k \in attach_rejected : \E j \in 1..Len(attach_calls) :
    /\ j > k
    /\ j \notin attach_rejected
    /\ attach_calls[j].port # attach_calls[k].port
    /\ attacher_lock = "free"
    /\ unattached[attach_calls[k].port] = NoPartial

\* ---- the DNS-health probe (specification ProbeSpec) ----

\* attempts begun so far
AttemptsMade == Len(outcomes) + (IF pr_pc = "attempt" THEN 1 ELSE 0)

AllFailed == \A i \in 1..Len(outcomes) : outcomes[i] = "failure"

\* resolve_with_retry has returned its result (and do_validation may have
\* recorded it)
Returned == pr_pc \in {"returned", "recorded"}

\* C12: once the hard-timeout alarm has gone off during do_validation's probe,
\* the probe is interrupted (no attempt is running or about to run), and the
\* result that is counted and written has status hard_timeout,
\* latency_ms = HARD_TIMEOUT * 1000 and attempt = MAX_RETRIES.
C12_HardTimeout ==
  (pr_entry = "do_validation" /\ alarm = "spent") =>
    /\ pr_pc \in {"interrupted", "recorded"}
    /\ pr_pc = "recorded" =>
         /\ status_counts = <<"hard_timeout">>
         /\ Len(written) = 1
         /\ written[1].status = "hard_timeout"
         /\ written[1].latency_ms = <<HARD_TIMEOUT * 1000>>
         /\ written[1].attempt = MAX_RETRIES

\* C13: resolve_with_retry makes at most retries attempts, begins a further
\* attempt only after an attempt that neither returned an answer nor ended with
\* reply code 4, and the attempt field of the returned result is the number of
\* attempts made, which is retries when every attempt failed.
C13_BoundedRetries ==
  /\ AttemptsMade <= retries
  /\ \A i \in 1..(AttemptsMade - 1) : outcomes[i] = "failure"
  /\ pr_pc = "returned" =>
       /\ result.attempt = AttemptsMade
       /\ AllFailed => result.attempt = retries

\* every attempt failed and the result came back, after the last allowed attempt
C13_Witness ==
  /\ pr_pc = "returned"
  /\ retries >= 2
  /\ Len(outcomes) = retries
  /\ AllFailed
  /\ result.attempt = retries

\* C14: an attempt that ends with SOCKS reply code 4 is the last one, whatever
\* retries remain: the function returns with status dns_fail in wildcard mode and
\* with status success and resolved_ip "NXDOMAIN" in nxdomain mode.
C14_NxdomainTerminal ==
  \A i \in 1..Len(outcomes) :
    outcomes[i] = "code4" =>
      /\ i = Len(outcomes)
      /\ Returned
      /\ result.attempt = i
      /\ expected_ip # Null => result.status = "dns_fail"
      /\ expected_ip = Null =>
           (result.status = "success" /\ result.resolved_ip = "NXDOMAIN")

\* reply code 4, in its hexadecimal form, ended the second attempt with retries
\* left, in nxdomain mode
C14_Witness ==
  /\ pr_pc = "returned"
  /\ Len(outcomes) = 2 /\ outcomes[2] = "code4"
  /\ last_outcome.text.lead = "0x0"
  /\ retries > 2
  /\ expected_ip = Null
  /\ result.resolved_ip = "NXDOMAIN"

\* C15: in wildcard mode an attempt that returns an address ends the call on that
\* attempt; the status is success exactly when the address is the expected one,
\* otherwise wrong_ip with the error "Expected <expected>, got <returned>".
C15_WildcardVerdict ==
  (Len(outcomes) > 0 /\ outcomes[Len(outcomes)] = "answer" /\ expected_ip # Null) =>
    /\ Returned
    /\ result.attempt = Len(outcomes)
    /\ result.status = "success" <=> last_outcome.raw.text = expected_ip
    /\ last_outcome.raw.text # expected_ip =>
         /\ result.status = "wrong_ip"
         /\ result.error = <<"Expected", expected_ip, "got", last_outcome.raw.text>>

\* the expected address came back as bytes on a retry and was accepted
C15_Witness ==
  /\ pr_pc = "returned"
  /\ expected_ip # Null
  /\ Len(outcomes) = 2 /\ outcomes[2] = "answer"
  /\ last_outcome.raw.type = "bytes"
  /\ result.status = "success"

\* the status tokens the specification lists
StatusVocabulary ==
  {"success", "wrong_ip", "dns_fail", "timeout", "eof_error", "tor_connection_lost",
   "tor_connection_refused", "hard_timeout", "exception", "socks_general_failure",
   "socks_ruleset_blocked", "network_unreachable", "connection_refused",
   "ttl_expired", "socks_command_unsupported", "socks_address_unsupported"}

\* C16 as stated: every status returned by resolve_with_retry or recorded by
\* do_validation is one of the sixteen listed tokens.
C16_StatusVocabulary ==
  /\ Returned => result.status \in StatusVocabulary
  /\ \A i \in 1..Len(written) : written[i].status \in StatusVocabulary
  /\ \A i \in 1..Len(status_counts) : status_counts[i] \in StatusVocabulary

\* C16 amended: the status is one of the sixteen listed tokens, or socks_error
\* when the last attempt raised a SOCKS error whose text carries no code 1-8, or
\* unknown when no attempt was made (retries = 0).
C16_StatusVocabularyAmended ==
  /\ (Returned \/ pr_pc = "interrupted") =>
       /\ result.status \in StatusVocabulary \cup {"socks_error", "unknown"}
       /\ result.status = "socks_error" =>
            /\ last_outcome.kind = "SOCKSv5Error"
            /\ ReplyCode(last_outcome.text) \notin 1..8
       /\ result.status = "unknown" => (retries = 0 /\ outcomes = << >>)
  /\ \A i \in 1..Len(written) : written[i] = result
  /\ \A i \in 1..Len(status_counts) : status_counts[i] = result.status

\* every attempt ended with a SOCKS error without a known code
C16_Witness ==
  /\ pr_pc = "returned"
  /\ retries = 2 /\ Len(outcomes) = 2
  /\ result.status = "socks_error"

\* ---- the grace wait (specification GraceSpec) ----

\* C20 as stated: with n >= 1 live children the per-process budgets add up to at
\* most the grace window G.
C20_GraceSplit ==
  (g_pc = "done" /\ active >= 1) => waited <= grace_timeout

\* C20 amended: each child is waited on for max(1, floor(G / n)) seconds, so the
\* budgets add up to at most max(G, n): to at most G when n <= G, and to n when
\* n > G.
C20_GraceSplitAmended ==
  (g_pc = "done" /\ active >= 1) =>
    /\ joined = active
    /\ waited = active * per_proc
    /\ active <= grace_timeout =>
         (waited <= grace_timeout /\ grace_timeout < active * (per_proc + 1))
    /\ active > grace_timeout => (per_proc = 1 /\ waited = active)

\* more children than seconds: each got one second
C20_Witness ==
  /\ g_pc = "done"
  /\ grace_timeout >= 1
  /\ active > grace_timeout
  /\ waited = active


\* ---- main: empty selection ----

\* C21: when the exit selection of a module yields zero exits, ExitSelectionError
\* is raised, no circuit is requested for that module, and main ends with exit
\* code 1.
C21_EmptySelectionFatal ==
  /\ \A m \in raised : selection[m] = 0 /\ requests[m] = 0
  /\ \A m \in 1..args_module :
       (m \in importable /\ selection[m] = 0 /\ (m < mod_idx \/ main_pc = "returned")
          /\ first_hop_in_consensus)
         => m \in raised
  /\ (main_pc = "returned" /\ raised # {}) => exit_status = 1

\* ---- thread ownership of the statistics ----

\* the counters of Statistics and the registry
OwnedState ==
  <<total_circuits, successful_circuits, failed_circuits, finished_streams,
    pending_circuits>>

\* the step is one of the controller event thread (and of no other thread)
EventThreadStep == pc'["E"] # pc["E"] /\ pc'["Q"] = pc["Q"] /\ m_pc' = m_pc

\* two threads are inside "failed_circuits += 1" at once: both have loaded the
\* counter and neither has stored it
ConcurrentUpdate == m_pc = "record_store" /\ pc["E"] = "failed_store"

\* C22: every write to the Statistics counters and to pending_circuits is made by
\* the controller event thread, and no two threads update a counter or the
\* registry at the same time.
C22_SingleWriter ==
  [][ /\ (OwnedState' # OwnedState) => EventThreadStep
      /\ ~ConcurrentUpdate ]_vars

\* ---- Statistics.update_circs ----

\* the event thread finishes update_circs for a CIRC FAILED event in this step
FailedProcessed == pc["E"] = "failed_store" /\ pc'["E"] # "failed_store"

\* the event thread runs update_circs for a CIRC BUILT event of circuit c in this step
BuiltProcessed(c) == pc["E"] = "idle" /\ cur'["E"] = CircEvent(c, "BUILT", "")

\* the failure record update_circs is expected to file for the event being handled
ExpectedFailureFiled ==
  LET cid == cur["E"].id
      known == cid \in DOMAIN pending_circuits
      key == IF known THEN <<"exit", pending_circuits[cid].exit_relay>>
                      ELSE <<"UNRESOLVED", cid>>
  IN  /\ key \in DOMAIN failed_circuit_relays'
      /\ failed_circuit_relays'[key].reason_key = "circuit_timeout"
      /\ failed_circuit_relays'[key].tor_reason = cur["E"].reason
      /\ failed_circuit_relays'[key].first_hop =
           (IF known THEN pending_circuits[cid].first_hop ELSE None)
      /\ failed_circuit_relays'[key].unresolved = ~known
      /\ \A k \in DOMAIN failed_circuit_relays' \ {key} :
           k \in DOMAIN failed_circuit_relays
             /\ failed_circuit_relays'[k] = failed_circuit_relays[k]

\* C23: each processed CIRC FAILED event increments failed_circuits by exactly
\* one, leaves successful_circuits unchanged and files a failure record under the
\* registered exit fingerprint, or under UNRESOLVED_<cid> when the id is not in
\* pending_circuits; each processed CIRC BUILT event increments
\* successful_circuits by exactly one and leaves failed_circuits and
\* failed_circuit_relays unchanged.
C23_CircEventHandling ==
  [][ /\ FailedProcessed =>
           /\ failed_circuits' = failed_circuits + 1
           /\ successful_circuits' = successful_circuits
           /\ ExpectedFailureFiled
      /\ \A c \in Circuits : BuiltProcessed(c) =>
           /\ successful_circuits' = successful_circuits + 1
           /\ failed_circuits' = failed_circuits
           /\ failed_circuit_relays' = failed_circuit_relays ]_vars

\* ---- the completion token ----

\* the worker of circuit c ends in this step
WorkerEnds(c) == proc[c] = "running" /\ proc'[c] # "running"

\* the message (c, None) is put on the queue in this step
TokenSent(c) == queue' = Append(queue, <<c, None>>)

\* the queue reader takes the message (c, None) off the queue in this step
TokenRead(c) ==
  /\ pc["Q"] = "idle" /\ pc'["Q"] # "idle"
  /\ queue # << >> /\ Head(queue) = <<c, None>> /\ queue' = Tail(queue)

\* C24: each probe worker sends exactly one (circuit_id, None) message, and only
\* after its probe function has ended; for each such message the queue reader
\* requests close_circuit(circuit_id) and increments finished_streams by exactly
\* one, also when close_circuit is rejected with InvalidArguments.
C24_CompletionToken ==
  [][ \A c \in Circuits :
        /\ WorkerEnds(c) <=> TokenSent(c)
        /\ TokenRead(c) =>
             /\ c \in close_calls'
             /\ finished_streams' = finished_streams + 1 ]_vars

\* ---- iter_exit_relays: the total work ----

\* the main thread calls controller.new_circuit in this step
RequestIssued == m_pc = "new_circuit" /\ m_pc' # "new_circuit"

\* the main thread finishes stats.register_circuit in this step
Registration == m_pc = "register" /\ m_pc' # "register"

\* the main thread finishes stats.record_immediate_failure in this step
ImmediateFailure == m_pc = "record_store" /\ m_pc' # "record_store"

\* the record of an immediate failure is filed under the exit of the request
ImmediateFailureFiled ==
  LET key == <<"exit", ExitOf(m_idx + 1)>>
  IN  /\ key \in DOMAIN failed_circuit_relays'
      /\ failed_circuit_relays'[key].reason_key = "circuit_creation_failed"

\* C25: iter_exit_relays issues exactly len(exit_relays) x redundancy new_circuit
\* requests; each is followed by exactly one of register_circuit (an id was
\* returned) or record_immediate_failure (ControllerError was raised), which adds
\* one to failed_circuits with reason key circuit_creation_failed and leaves
\* pending_circuits unchanged; so the amount added to total_circuits equals
\* registrations plus immediate failures.
C25_TotalWork ==
  [][ /\ RequestIssued =>
           /\ m_idx < count * redundancy
           /\ m_pc' \in {"register", "record_store"}
      /\ Registration =>
           /\ m_idx' = m_idx + 1
           /\ registered' = registered \cup {m_idx + 1}
           /\ (m_idx + 1) \in DOMAIN pending_circuits'
           /\ failed_circuits' = failed_circuits
      /\ ImmediateFailure =>
           /\ m_idx' = m_idx + 1
           /\ registered' = registered
           /\ failed_circuits' = failed_circuits + 1
           /\ ImmediateFailureFiled
           /\ pending_circuits' = pending_circuits
      /\ m_pc' = "done" => m_idx' = total_circuits /\ total_circuits = count * redundancy
    ]_vars

\* ---- the friendly reason mapping ----

\* the reason keys of a circuit failure reported by the client
FriendlyKeys ==
  {"circuit_timeout", "relay_connect_failed", "circuit_no_path", "relay_resource_limit",
   "relay_hibernating", "circuit_destroyed", "circuit_finished",
   "relay_connection_closed", "channel_closed", "io_error", "tor_protocol_error",
   "tor_internal_error", "circuit_requested", "no_such_service",
   "measurement_expired", "guard_limit"}

\* the input is one of the known raw reasons, in some spelling
KnownReason(inp) == inp.spelling # "none" /\ inp.word \notin OtherWords

\* C26: get_circuit_failure_info is total and deterministic: each of the 16 known
\* raw reasons, compared case-insensitively, maps to its fixed reason key, and
\* every other reason, a missing one included, maps to circuit_failed.
C26_FriendlyReasonMapping ==
  /\ Cardinality({inp.word : inp \in {i \in ReasonInputs : KnownReason(i)}}) = 16
  /\ \A i \in 1..Len(info_calls) :
       IF KnownReason(info_calls[i].input)
         THEN info_calls[i].reason_key \in FriendlyKeys
         ELSE info_calls[i].reason_key = "circuit_failed"
  /\ \A i, j \in 1..Len(info_calls) :
       (KnownReason(info_calls[i].input) /\ KnownReason(info_calls[j].input)) =>
         (info_calls[i].reason_key = info_calls[j].reason_key
            <=> info_calls[i].input.word = info_calls[j].input.word)

\* a known reason was given in a spelling that is not upper case and got its
\* key, and a missing reason got the fallback
C26_Witness ==
  /\ Len(info_calls) = 2
  /\ KnownReason(info_calls[1].input)
  /\ info_calls[1].input.spelling = "lower"
  /\ info_calls[1].reason_key = "relay_connection_closed"
  /\ info_calls[2].reason = NoReason
  /\ info_calls[2].reason_key = "circuit_failed"

\* ---- the query names of the DNS probe ----

\* the label is the first 8 characters of the fingerprint (all of them when there
\* are fewer), in lower case
IsLoweredPrefix(label, fingerprint) ==
  /\ Len(label) = (IF Len(fingerprint) < 8 THEN Len(fingerprint) ELSE 8)
  /\ \A k \in 1..Len(label) :
       label[k] = (IF fingerprint[k] = "A" THEN "a" ELSE fingerprint[k])

\* C27: any two calls of generate_unique_query return different strings, and
\* every returned string is <fresh 32-hex label>.<first 8 characters of the
\* fingerprint, lowercased>.<base domain>, with the same middle label for the
\* same fingerprint.
C27_QueryUniquenessAndForm ==
  /\ \A i, j \in 1..Len(queries) :
       i # j => /\ queries[i].query # queries[j].query
                /\ queries[i].query[1] # queries[j].query[1]
                /\ queries[i].fingerprint = queries[j].fingerprint
                     => queries[i].query[2] = queries[j].query[2]
  /\ \A i \in 1..Len(queries) :
       /\ Len(queries[i].query) = 3
       /\ queries[i].query[1][1] = "hex32"
       /\ IsLoweredPrefix(queries[i].query[2], queries[i].fingerprint)
       /\ queries[i].query[3] = queries[i].base_domain

\* two calls with the same fingerprint, longer than 8 characters and with upper
\* case letters, and the same base domain
C27_Witness ==
  /\ Len(queries) = 2
  /\ queries[1].fingerprint = queries[2].fingerprint
  /\ queries[1].base_domain = queries[2].base_domain
  /\ Len(queries[1].fingerprint) > 8
  /\ queries[1].query[2] # Prefix(queries[1].fingerprint, 8)
  /\ queries[1].query # queries[2].query

\* ---- Attacher.prepare: the first arrival ----

\* thread t ends, in this step, a prepare call that found no entry for its port
FirstArrival(t) == pc[t] = "prep_act" /\ popped[t] = NoPartial /\ pc'[t] # "prep_act"

\* the entry a first arrival is expected to leave: the id of the call, bound to
\* the keyword of its kind
GivenEntry(t) ==
  IF cur[t].kind = "MSG"
    THEN [stream_id |-> None, circuit_id |-> cur[t].id]
    ELSE [stream_id |-> cur[t].id, circuit_id |-> None]

\* C28: a prepare call on a port with no entry stores exactly one partial entry
\* for that port, holding the given circuit id or stream id, issues no
\* attach_stream call and leaves the entries of all other ports unchanged; the
\* table never holds more than one entry per port.
C28_FirstArrivalStores ==
  [][ \A t \in Threads : FirstArrival(t) =>
        /\ cur[t].id # None
        /\ unattached[cur[t].port] = NoPartial
        /\ unattached'[cur[t].port] = GivenEntry(t)
        /\ \A p \in Ports \ {cur[t].port} : unattached'[p] = unattached[p]
        /\ attach_calls' = attach_calls
        /\ DOMAIN unattached' = Ports ]_vars

\* a first arrival has stored its entry while another port holds one too, and no
\* attach_stream call has been issued
C28_Witness ==
  /\ \A p \in Ports : unattached[p] # NoPartial
  /\ attach_calls = << >>
  /\ \A t \in Threads : pc[t] # "prep_act"

\* ---- Attacher._attach: the arguments of attach_stream ----

\* C29: every attach_stream call issued by the Attacher carries both a stream id
\* and a circuit id, for every sequence of prepare calls on a port, two
\* consecutive calls of the same kind included.
C29_AttachCarriesBothIds ==
  \A k \in 1..Len(attach_calls) :
    attach_calls[k].stream_id # None /\ attach_calls[k].circuit_id # None

\* ---- Attacher.prepare: the assertion on its arguments ----

\* thread t is inside a prepare call
InPrepare(t) == pc[t] = "prep_act"

\* "assert ((circuit_id is not None) and (stream_id is None)) or
\*         ((circuit_id is None) and (stream_id is not None))"
PrepareAssertion(args) ==
  \/ args.circuit_id # None /\ args.stream_id = None
  \/ args.circuit_id = None /\ args.stream_id # None

\* C30: the assertion at the top of Attacher.prepare holds for every prepare call
\* the event handler makes: the queue reader always passes only a circuit id and
\* new_stream always passes only a stream id.
C30_PrepareAssertionHolds ==
  \A t \in Threads : InPrepare(t) =>
    /\ PrepareAssertion(PrepareArgs(t))
    /\ t = "Q" => PrepareArgs(t).circuit_id \in Circuits /\ PrepareArgs(t).stream_id = None
    /\ t = "E" => PrepareArgs(t).stream_id \in 1..(next_sid - 1)
                    /\ PrepareArgs(t).circuit_id = None

\* new_stream is inside a prepare call after the queue reader has made one
C30_Witness ==
  /\ InPrepare("E")
  /\ \E p \in Ports : \E i \in 1..Len(prep_log[p]) : prep_log[p][i].kind = "MSG"

\* ---- CIRC events with a transient status ----

\* the event thread takes a CIRC event of circuit c whose status is neither BUILT
\* nor FAILED in this step
TransientProcessed(c) ==
  /\ pc["E"] = "idle"
  /\ tor_circ'[c] # tor_circ[c]
  /\ tor_circ'[c] \in {"launched", "closed"}

\* a probe worker is started for circuit c in this step
WorkerSpawned(c) == proc[c] # "running" /\ proc'[c] = "running"

\* C31: a CIRC event whose status is neither BUILT nor FAILED leaves
\* total_circuits, successful_circuits, failed_circuits, finished_streams,
\* failed_circuit_relays and pending_circuits unchanged and spawns no worker.
C31_TransientIgnored ==
  [][ \A c \in Circuits :
        /\ TransientProcessed(c) =>
             /\ OwnedState' = OwnedState
             /\ failed_circuit_relays' = failed_circuit_relays
             /\ proc' = proc
             /\ pc'["E"] \in {"cf_eval", "exited"}
        /\ WorkerSpawned(c) =>
             cur["E"] = CircEvent(c, "BUILT", "") ]_vars

\* a CLOSED event of a built circuit was handled after its worker was spawned
C31_Witness ==
  \E c \in Circuits :
    /\ tor_circ[c] = "closed"
    /\ proc[c] # "none"
    /\ successful_circuits = 1 /\ total_circuits = 1

\* ---- EventHandler.new_stream: the dispatch of STREAM events ----

\* the event thread takes the next STREAM event in this step
StreamTaken ==
  /\ pc["E"] = "idle"
  /\ stream_events # << >>
  /\ stream_events' = Tail(stream_events)

\* the prepare calls made with stream id sid in the log, over all ports
PrepareCallsIn(log, sid) ==
  UNION { {<<p, i>> : i \in {j \in 1..Len(log[p]) :
                                log[p][j] = [kind |-> "STREAM", id |-> sid]}} :
          p \in Ports }

\* C32: a STREAM event leads to exactly one Attacher.prepare(port, stream_id=event
\* id) call when its status is NEW or NEWRESOLVE and a source port can be
\* extracted; a STREAM event with any other status leaves the attacher table
\* unchanged and issues no attach.
C32_StreamDispatch ==
  [][ StreamTaken =>
        LET ev == Head(stream_events)
        IN  IF ev.status \in {"NEW", "NEWRESOLVE"} /\ ev.port \in Ports
              THEN /\ PrepareCallsIn(prep_log, ev.id) = {}
                   /\ Cardinality(PrepareCallsIn(prep_log', ev.id)) = 1
                   /\ prep_log'[ev.port] =
                        Append(prep_log[ev.port], [kind |-> "STREAM", id |-> ev.id])
                   /\ pc'["E"] = "prep_act"
              ELSE /\ unattached' = unattached
                   /\ attach_calls' = attach_calls
                   /\ prep_log' = prep_log
                   /\ pc'["E"] = "idle" ]_vars

\* a STREAM CLOSED event was ignored while the table held an entry for its port,
\* after the NEW event of the same stream had led to a prepare call
C32_Witness ==
  /\ pc["E"] = "idle"
  /\ stream_events = << >>
  /\ \E c \in Circuits : \E k \in 1..Len(stream_owner) :
       /\ stream_owner[k] = c
       /\ sock[c].st = "closed"
       /\ proc[c] = "running"
       /\ Cardinality(PrepareCallsIn(prep_log, k)) = 1
  /\ \E p \in Ports : unattached[p] # NoPartial

\* ---- Statistics: the four counters ----

Counters == <<total_circuits, successful_circuits, failed_circuits, finished_streams>>

\* exactly one of the four counters goes up by one in this step, the others stay
RaisedOneByOne ==
  \E i \in 1..4 :
    /\ Counters'[i] = Counters[i] + 1
    /\ \A j \in (1..4) \ {i} : Counters'[j] = Counters[j]

\* the handling of one counted event ends in this step: a CIRC BUILT or CIRC
\* FAILED event, an immediate creation error, or a completion token
CountedEventHandled ==
  \/ FailedProcessed
  \/ \E c \in Circuits : BuiltProcessed(c)
  \/ ImmediateFailure
  \/ \E c \in Circuits : TokenRead(c)

\* C33: total_circuits, successful_circuits, failed_circuits and finished_streams
\* never decrease in any step, and each single event (CIRC BUILT, CIRC FAILED,
\* immediate creation error, completion token) raises exactly one of them by
\* exactly one.
C33_MonotonicCounters ==
  [][ /\ \A i \in 1..4 : Counters'[i] >= Counters[i]
      /\ CountedEventHandled => RaisedOneByOne ]_vars

\* C34: in every reachable state the number of entries in failed_circuit_relays
\* equals failed_circuits: every counted circuit failure keeps its own record,
\* including with redundancy greater than one and repeated failures for the same
\* exit.
C34_RecordsMatchFailureCount ==
  Cardinality(DOMAIN failed_circuit_relays) = failed_circuits

\* ---- iter_exit_relays: the first hop ----

\* C35: in random first-hop mode (no pinned first hop) the first hop passed to
\* new_circuit is never the same relay as the circuit's exit, for every exit and
\* every redundancy iteration.
C35_FirstHopIsNotExit ==
  args_first_hop = None =>
    \A k \in 1..Len(new_circuit_calls) :
      new_circuit_calls[k][1] # new_circuit_calls[k][2]

\* random mode, the exit is itself a candidate and was drawn and rejected, then
\* new_circuit was called for every exit and every redundancy iteration
C35_Witness ==
  /\ args_first_hop = None
  /\ hop_redundancy = 2
  /\ Len(exit_relays) = 2
  /\ \A i \in 1..2 : exit_relays[i] \in fingerprints
  /\ hop_pc = "new_circuit" /\ hop_i = 2 /\ hop_r = 2
  /\ rejected > 0
  /\ Len(new_circuit_calls) = 3
  /\ \A k \in 1..3 : new_circuit_calls[k][2] = exit_relays[(k + 1) \div 2]

\* C36: in random first-hop mode the first-hop selection loop terminates for
\* every exit relay whenever the candidate fingerprint list is non-empty, so
\* circuit triggering always reaches the end of the exit list.  As a property of
\* finite runs: whenever the loop is entered with a non-empty list, some draw
\* leaves it.
C36_SelectionLoopCanEnd ==
  (hop_pc = "hops" /\ args_first_hop = None /\ fingerprints # {}) =>
    \E candidate \in fingerprints : Accepts(candidate, exit_relay)

\* ---- dnshealth: the result of a probe ----

\* C37: a result returned by resolve_with_retry with status success has error
\* == null (the empty tuple here), for every sequence of attempt outcomes,
\* including a retryable failure followed by a successful attempt.
C37_SuccessHasNoError ==
  (pr_pc = "returned" /\ result.status = "success") => result.error = << >>

\* do_validation ends in this step
ValidationEnds == pr_pc # "recorded" /\ pr_pc' = "recorded"

RetryableCodes == {1, 2, 3, 5, 6, 7, 8}

SocksToken(k) ==
  CASE k = 1 -> "socks_general_failure"
    [] k = 2 -> "socks_ruleset_blocked"
    [] k = 3 -> "network_unreachable"
    [] k = 5 -> "connection_refused"
    [] k = 6 -> "ttl_expired"
    [] k = 7 -> "socks_command_unsupported"
    [] k = 8 -> "socks_address_unsupported"

\* an attempt ends with a SOCKSv5Error in this step
SocksErrorStep ==
  /\ pr_pc = "attempt"
  /\ Len(outcomes') = Len(outcomes) + 1
  /\ last_outcome'.kind = "SOCKSv5Error"

\* the attempt was not the last one and the loop goes on with the retry delay, or
\* it was the last one and the loop is exhausted
LoopGoesOn == pr_pc' = IF attempt < retries THEN "sleep" ELSE "loop"

\* C39 as stated: an attempt that fails with SOCKS reply code k in
\* {1,2,3,5,6,7,8} sets the result status to the fixed token for k and is
\* retryable; code 4 maps to dns_fail and is not retryable.
C39_SocksReplyMapping ==
  [][ SocksErrorStep =>
        /\ ReplyCode(last_outcome'.text) \in RetryableCodes =>
             /\ result'.status = SocksToken(ReplyCode(last_outcome'.text))
             /\ LoopGoesOn
        /\ ReplyCode(last_outcome'.text) = 4 =>
             /\ result'.status = "dns_fail"
             /\ pr_pc' = "returned" ]_vars

\* C39 amended: an attempt that fails with SOCKS reply code k in
\* {1,2,3,5,6,7,8} sets the result status to the fixed token for k and is
\* retryable; code 4 maps to dns_fail in wildcard mode (to success with
\* resolved_ip NXDOMAIN when no expected IP is given) and is not retryable.
C39_SocksReplyMappingAmended ==
  [][ SocksErrorStep =>
        /\ ReplyCode(last_outcome'.text) \in RetryableCodes =>
             /\ result'.status = SocksToken(ReplyCode(last_outcome'.text))
             /\ LoopGoesOn
        /\ ReplyCode(last_outcome'.text) = 4 =>
             /\ IF expected_ip # Null
                  THEN result'.status = "dns_fail"
                  ELSE result'.status = "success" /\ result'.resolved_ip = "NXDOMAIN"
             /\ pr_pc' = "returned" ]_vars

\* a first attempt failed with reply code 6 and was retried; the result still
\* carries the token of code 6 while the second attempt runs
C39_Witness ==
  /\ pr_pc = "attempt" /\ attempt = 2
  /\ outcomes = <<"failure">>
  /\ last_outcome.kind = "SOCKSv5Error" /\ ReplyCode(last_outcome.text) = 6
  /\ result.status = "ttl_expired"

\* ---- dnshealth: the summary of the teardown ----

\* do_validation calls the probe worker has completed
ValidationsCompleted == IF pr_pc = "recorded" THEN 1 ELSE 0

\* C40: when the module's teardown runs in the orchestrator process, the status
\* histogram it summarises holds one count for every probe that ended: its total
\* equals the number of do_validation calls completed by the probe workers of
\* that run.
C40_TeardownCountsEveryProbe ==
  [][ (teardown_total = << >> /\ teardown_total' # << >>) =>
        teardown_total' = <<ValidationsCompleted>> ]_vars

=============================================================================
